---- MODULE Spec2Model ----
(***************************************************************************)
(* Verification model of the PDF comparison tools:                        *)
(*   - word alignment and move detection (tool_compare_assemblage.py)     *)
(*   - diff-service post-filtering, word search and region merging        *)
(*     (Tool_compare_Batiment/compare_mode3.py, Tool_compare_Batiment/    *)
(*     app.py)                                                             *)
(* Strings are sequences of one-character strings, so that len(),         *)
(* lower(), strip() and split() are computed and not assumed.             *)
(***************************************************************************)
EXTENDS Naturals, Integers, Sequences, FiniteSets, TLC

VARIABLES
    \* ---- align_words_assemblage / compare_pages_assemblage ----
    ref_words_data,     \* list of word dicts of the reference page
    final_words_data,   \* list of word dicts of the final page
    ref_norm,           \* normalized texts of the reference words
    final_norm,         \* normalized texts of the final words
    ref_counter,        \* Counter(ref_norm)
    final_counter,      \* Counter(final_norm)
    opcodes,            \* s.get_opcodes()
    op_pos,             \* number of opcodes already scanned
    idx1_current,       \* running cursor in ref_words_data
    idx2_current,       \* running cursor in final_words_data
    ref_writes,         \* per ref word: number of stores to highlight_color
    final_writes,       \* per final word: number of stores to highlight_color
    ref_page_annots,    \* highlight annotations written to the ref page
    final_page_annots,  \* highlight annotations written to the final page
    align_pc,           \* position in compare_pages_assemblage
    \* ---- apply_highlights_to_pdf / add_highlights_for_type ----
    highlights_added,   \* page_num -> rects of added/changed words (dict items)
    highlights_moved,   \* page_num -> rects of moved words (dict items)
    changed_mapping,    \* new word -> original word or "NEW" (dict items)
    rect_to_word_added, \* id(rect) -> search phrase, added/changed rects
    rect_to_word_moved, \* id(rect) -> search phrase, moved rects
    cur_type,           \* which add_highlights_for_type call is running
    entry_pos,          \* number of dict items of the call already handled
    rects_sorted,       \* the page's rects sorted by (y0, x0)
    scan_pos,           \* number of rects of rects_sorted already scanned
    current_rect,       \* the running merged rectangle
    current_originals,  \* the rects merged into current_rect
    merged_rects,       \* the closed regions of the page
    merged_to_original, \* region index -> contributing rects
    doc_annots,         \* highlight annotations written to the document
    total_annotations,  \* total_annotations of add_highlights_for_type
    write_log,          \* every region write attempted, with its outcome
    merge_pc,           \* position in apply_highlights_to_pdf
    \* ---- compare_mode3.main / app.compare_pdfs_bidirectional ----
    caller,             \* "main" (compare_mode3) or "app" (bidirectional)
    service_log,        \* what happened in each get_differences_from_openai call
    diff_result,        \* direction -> (changed_dict, missing_list, moved_list)
    filtered,           \* direction -> results of the caller's filtering
    find_calls,         \* the calls of find_words_in_pdf made so far
    results,            \* output document -> what was written to it
    stats,              \* output document -> statistics returned by app
    diff_pc,            \* position in main / compare_pdfs_bidirectional
    \* ---- find_words_in_pdf, one loop iteration at a time ----
    fw_pdf_path,        \* pdf_path
    fw_words_to_find,   \* words_to_find
    fw_max,             \* max_instances_per_word
    fw_phrases,         \* phrases
    fw_hits,            \* rects appended, with page and recorded phrase
    fw_word_counts,     \* word_counts
    fw_page_num,        \* page_num of the outer loop
    fw_phrase_pos,      \* number of phrases already handled on the page
    fw_words_in_phrase, \* words of the fallback search still to handle
    fw_pending,         \* text_instances or words_data still to iterate
    fw_pc,              \* position in find_words_in_pdf
    \* ---- tool_compare_assemblage.main, a document of several pages ----
    m3_doc,             \* per page: the texts of the ref and the final page
    m3_ref_pages_data,  \* ref_pages_data as far as extracted
    m3_i,               \* page index i of the loop of main
    m3_ref_words,       \* ref_words_data of the page being compared
    m3_final_words,     \* final_words_data of the page being compared
    m3_side,            \* the page apply_highlights_to_page is writing to
    m3_pos,             \* number of words of words_data already handled
    m3_count,           \* highlights_added of the running call
    m3_returned,        \* the calls of apply_highlights_to_page that returned
    m3_attempts,        \* every write attempted, with its outcome
    m3_annots,          \* annotations present in the two open documents
    m3_saved,           \* the output files written
    m3_pc,              \* position in main
    \* ---- align_words_assemblage as one call on records with any earlier colours ----
    call_ref_before,    \* ref_words_data as passed
    call_final_before,  \* final_words_data as passed
    call_ref_after,     \* ref_words_data when the call has returned
    call_final_after,   \* final_words_data when the call has returned
    call_pc,            \* position of the call
    \* ---- compare_mode3.main and its temporary page images ----
    cl_pages,           \* page count of PDF A and of PDF B
    cl_on_disk,         \* temporary image files present
    cl_created,         \* temporary image files ever created
    cl_images_a,        \* images_a
    cl_images_b,        \* images_b
    cl_attempted,       \* files the cleanup loop has handled
    cl_pending,         \* files the cleanup loop has still to handle
    cl_exit,            \* how the try body was left
    cl_pc,              \* position in main
    \* ---- ToolCompareModeUI: the Mode 2 check button and its worker threads ----
    ui_mode,            \* self.mode, the selected comparison mode
    pane_ready,         \* pane -> an open document is loaded in the pane
    check_button,       \* state of the Check Annotations button
    status_label,       \* text of the status label next to the button
    stats_label,        \* the statistics shown by _display_summary, if any
    workers,            \* the run_check threads started so far, in start order
    after_queue,        \* callbacks scheduled with master.after(0, ...), oldest first
    \* ---- streamlit_helpers.display_mode2_results_summary ----
    sm_results,         \* the list of annotation check results (their status)
    sm_metrics,         \* the metrics shown, if any
    sm_pc,              \* position in display_mode2_results_summary
    \* ---- start_http_server of app.py and pdf_viewer_iframe.py ----
    srv_variant,        \* which start_http_server the application has
    session_state,      \* st.session_state, the http_server keys
    srv_live,           \* the file servers of the session that are serving
    srv_calls,          \* calls of start_http_server begun so far
    srv_requested,      \* the port argument of the running call
    srv_port,           \* the loop variable port
    srv_attempt,        \* the loop variable attempt
    srv_tried,          \* ports tried by the running call, with what happened
    srv_started,        \* servers started by the running call
    srv_entry_running,  \* the session marked a running server at entry
    srv_result,         \* return value of the call
    srv_pc,             \* position in start_http_server
    \* ---- tool_compare_pages_2025: pair_products and compare_pairs ----
    pr_list1,           \* hashes of the products of the first PDF
    pr_list2,           \* hashes of the products of the second PDF
    pr_doc,             \* PDF2 is open for annotation
    pr_pairs,           \* the pairs returned by pair_products
    pr_pos,             \* number of pairs compare_pairs has handled
    pr_read,            \* pairs whose product records were read
    pr_reported,        \* pairs printed in the report
    pr_annotated,       \* pairs with a rectangle annotation in PDF2
    pr_pc               \* position in the Mode 1 product comparison

alignVars == <<ref_words_data, final_words_data, ref_norm, final_norm,
               ref_counter, final_counter, opcodes, op_pos, idx1_current,
               idx2_current, ref_writes, final_writes, ref_page_annots,
               final_page_annots, align_pc>>

mergeVars == <<highlights_added, highlights_moved, changed_mapping,
               rect_to_word_added, rect_to_word_moved, cur_type, entry_pos,
               rects_sorted, scan_pos, current_rect, current_originals,
               merged_rects, merged_to_original, doc_annots,
               total_annotations, write_log, merge_pc>>

diffVars == <<caller, service_log, diff_result, filtered, find_calls, results, stats,
              diff_pc>>

findVars == <<fw_pdf_path, fw_words_to_find, fw_max, fw_phrases, fw_hits,
              fw_word_counts, fw_page_num, fw_phrase_pos, fw_words_in_phrase,
              fw_pending, fw_pc>>

m3Vars == <<m3_doc, m3_ref_pages_data, m3_i, m3_ref_words, m3_final_words,
            m3_side, m3_pos, m3_count, m3_returned, m3_attempts, m3_annots,
            m3_saved, m3_pc>>

callVars == <<call_ref_before, call_final_before, call_ref_after,
              call_final_after, call_pc>>

clVars == <<cl_pages, cl_on_disk, cl_created, cl_images_a, cl_images_b,
            cl_attempted, cl_pending, cl_exit, cl_pc>>

m2Vars == <<ui_mode, pane_ready, check_button, status_label, stats_label,
            workers, after_queue>>

smVars == <<sm_results, sm_metrics, sm_pc>>

srvVars == <<srv_variant, session_state, srv_live, srv_calls, srv_requested,
             srv_port, srv_attempt, srv_tried, srv_started,
             srv_entry_running, srv_result, srv_pc>>

prVars == <<pr_list1, pr_list2, pr_doc, pr_pairs, pr_pos, pr_read,
            pr_reported, pr_annotated, pr_pc>>

\* what the steps of one program leave alone: the state of the others
notAlignVars == <<mergeVars, diffVars, findVars, m3Vars, callVars, clVars,
                  m2Vars, smVars, srvVars, prVars>>

notMergeVars == <<alignVars, diffVars, findVars, m3Vars, callVars, clVars,
                  m2Vars, smVars, srvVars, prVars>>

notDiffVars == <<alignVars, mergeVars, findVars, m3Vars, callVars, clVars,
                 m2Vars, smVars, srvVars, prVars>>

notFindVars == <<alignVars, mergeVars, diffVars, m3Vars, callVars, clVars,
                 m2Vars, smVars, srvVars, prVars>>

notM3Vars == <<alignVars, mergeVars, diffVars, findVars, callVars, clVars,
               m2Vars, smVars, srvVars, prVars>>

notCallVars == <<alignVars, mergeVars, diffVars, findVars, m3Vars, clVars,
                 m2Vars, smVars, srvVars, prVars>>

notCleanupVars == <<alignVars, mergeVars, diffVars, findVars, m3Vars,
                    callVars, m2Vars, smVars, srvVars, prVars>>

notMode2Vars == <<alignVars, mergeVars, diffVars, findVars, m3Vars, callVars,
                  clVars, smVars, srvVars, prVars>>

notSummaryVars == <<alignVars, mergeVars, diffVars, findVars, m3Vars,
                    callVars, clVars, m2Vars, srvVars, prVars>>

notServerVars == <<alignVars, mergeVars, diffVars, findVars, m3Vars,
                   callVars, clVars, m2Vars, smVars, prVars>>

notPairsVars == <<alignVars, mergeVars, diffVars, findVars, m3Vars, callVars,
                  clVars, m2Vars, smVars, srvVars>>

vars == <<alignVars, mergeVars, diffVars, findVars, m3Vars, callVars, clVars,
          m2Vars, smVars, srvVars, prVars>>

----------------------------------------------------------------------------
(* Bounds *)

\* most Mode 2 checks started in one run of the desktop tool
MaxChecks == 2

\* most popup annotations found by one Mode 2 check
MaxAnnotations == 1

\* longest list of Mode 2 results shown by the web application
MaxResults == 3

\* most calls of start_http_server in one session
MaxCalls == 3

\* most products extracted from one PDF in Mode 1
MaxProducts == 2

\* longest word list of a page
MaxWords == 3

\* longest words_to_find of a stepwise find_words_in_pdf run
MaxFind == 2

\* longest word list passed to a single call of align_words_assemblage
MaxCallWords == 2

\* most pages of a document compared by tool_compare_assemblage.main
MaxPages == 2

\* most added/changed rects found on a page
MaxAddedRects == 3

\* most moved rects found on a page
MaxMovedRects == 1

\* most entries of the "text" object of a diff-service response
MaxChanged == 1

\* most entries of the "missing" array of a diff-service response
MaxMissing == 1

\* most entries of the "move" array of a diff-service response
MaxMoved == 1

----------------------------------------------------------------------------
(* Generic helpers *)

Range(s) == {s[i] : i \in 1..Len(s)}

SeqsUpTo(S, n) == UNION {[1..k -> S] : k \in 0..n}

Min2(a, b) == IF a <= b THEN a ELSE b

Max2(a, b) == IF a >= b THEN a ELSE b

Abs(a) == IF a >= 0 THEN a ELSE 0 - a

----------------------------------------------------------------------------
(* Strings *)

\* str.lower() on one character
LowerChar(c) ==
    CASE c = "A" -> "a"
      [] c = "B" -> "b"
      [] c = "D" -> "d"
      [] c = "E" -> "e"
      [] c = "L" -> "l"
      [] c = "N" -> "n"
      [] c = "P" -> "p"
      [] c = "S" -> "s"
      [] c = "T" -> "t"
      [] c = "W" -> "w"
      [] OTHER -> c

\* str.lower()
Lower(w) == [i \in 1..Len(w) |-> LowerChar(w[i])]

\* the chained str.replace calls of _normalize_word, one character at a
\* time; "U02BC" stands for the modifier letter apostrophe
ReplaceQuoteChar(c) ==
    CASE c = "U02BC" -> "'"
      [] OTHER -> c

CASE_INSENSITIVE == TRUE

IGNORE_QUOTES == TRUE

_normalize_word(word) ==
    LET w1 == IF CASE_INSENSITIVE THEN Lower(word) ELSE word
    IN  IF IGNORE_QUOTES THEN [i \in 1..Len(w1) |-> ReplaceQuoteChar(w1[i])]
        ELSE w1

\* len(w) is Len(w)

\* p occurs in t as a contiguous substring
IsSubstring(p, t) ==
    \E k \in 0..(Len(t) - Len(p)) : SubSeq(t, k + 1, k + Len(p)) = p

RECURSIVE LStrip(_)
LStrip(w) == IF w # <<>> /\ Head(w) = " " THEN LStrip(Tail(w)) ELSE w

RECURSIVE RStrip(_)
RStrip(w) ==
    IF w # <<>> /\ w[Len(w)] = " " THEN RStrip(SubSeq(w, 1, Len(w) - 1)) ELSE w

\* str.strip()
Strip(w) == RStrip(LStrip(w))

RECURSIVE SplitFrom(_, _)
\* str.split(): the maximal runs without blanks; cur is the run being read
SplitFrom(w, cur) ==
    IF w = <<>> THEN (IF cur = <<>> THEN <<>> ELSE <<cur>>)
    ELSE IF Head(w) = " "
         THEN (IF cur = <<>> THEN <<>> ELSE <<cur>>) \o SplitFrom(Tail(w), <<>>)
         ELSE SplitFrom(Tail(w), Append(cur, Head(w)))

Split(w) == SplitFrom(w, <<>>)

\* string literals of the programs
S_NEW == <<"N", "E", "W">>

S_Brun == <<"B", "r", "u", "n">>

S_brun == <<"b", "r", "u", "n">>

S_TES == <<"T", "E", "S">>

S_tes == <<"t", "e", "s">>

S_Lot == <<"L", "o", "t">>

S_lot == <<"l", "o", "t">>

S_de == <<"d", "e">>

S_Pot == <<"P", "o", "t">>

S_ab == <<"a", "b">>

S_Lot_de == <<"L", "o", "t", " ", "d", "e">>

S_gris == <<"g", "r", "i", "s">>

S_gris_Lot == <<"g", "r", "i", "s", " ", "L", "o", "t">>

S_blank == <<" ">>

S_200ml == <<"2", "0", "0", "m", "l">>

\* "l'eau" written with the ASCII apostrophe, with the right single curly
\* quote ("U2019") and with the modifier letter apostrophe ("U02BC")
S_l_eau == <<"l", "'", "e", "a", "u">>

S_l_eau_curly == <<"l", "U2019", "e", "a", "u">>

S_l_eau_modifier == <<"l", "U02BC", "e", "a", "u">>

\* generic_words of main and compare_pdfs_bidirectional; "U00E0" stands
\* for a with grave accent
generic_words ==
    { <<"d", "e">>, <<"m", "l">>, <<"g", "r">>, <<"p", "o", "t">>,
      <<"c", "a", "r", "t", "o", "u", "c", "h", "e">>, <<"l", "a">>,
      <<"l", "e">>, <<"l", "e", "s">>, <<"e", "t">>, <<"e", "n">>,
      <<"U00E0">>, <<"d", "u">>, <<"d", "e", "s">>, <<"u", "n">>,
      <<"u", "n", "e">> }

\* skip_words of find_words_in_pdf
skip_words ==
    { <<"d", "e">>, <<"m", "l">>, <<"g", "r">>, <<"p", "o", "t">>,
      <<"c", "a", "r", "t", "o", "u", "c", "h", "e">>, <<"l", "a">>,
      <<"l", "e">>, <<"l", "e", "s">>, <<"e", "t">>, <<"e", "n">>,
      <<"U00E0">>, <<"d", "u">>, <<"d", "e", "s">>, <<"u", "n">>,
      <<"u", "n", "e">>, <<"b", "l", "a", "n", "c">>, <<"g", "r", "i", "s">>,
      <<"n", "o", "i", "r">>, <<"b", "e", "i", "g", "e">>,
      <<"m", "a", "r", "r", "o", "n">> }

----------------------------------------------------------------------------
(* Variables of a component that is not running *)

\* align_words_assemblage as one call on records with any earlier colours: not running
CallIdle ==
    /\ call_ref_before = <<>>
    /\ call_final_before = <<>>
    /\ call_ref_after = <<>>
    /\ call_final_after = <<>>
    /\ call_pc = "idle"

\* compare_mode3.main and its temporary page images: not running
CleanupIdle ==
    /\ cl_pages = <<>>
    /\ cl_on_disk = {}
    /\ cl_created = {}
    /\ cl_images_a = <<>>
    /\ cl_images_b = <<>>
    /\ cl_attempted = {}
    /\ cl_pending = <<>>
    /\ cl_exit = "none"
    /\ cl_pc = "idle"

\* ToolCompareModeUI: the Mode 2 check button and its worker threads: not running
Mode2Idle ==
    /\ ui_mode = "idle"
    /\ pane_ready = <<>>
    /\ check_button = "idle"
    /\ status_label = [text |-> "idle", total |-> 0]
    /\ stats_label = <<>>
    /\ workers = <<>>
    /\ after_queue = <<>>

\* streamlit_helpers.display_mode2_results_summary: not running
SummaryIdle ==
    /\ sm_results = <<>>
    /\ sm_metrics = <<>>
    /\ sm_pc = "idle"

\* start_http_server of app.py and pdf_viewer_iframe.py: not running
ServerIdle ==
    /\ srv_variant = "idle"
    /\ session_state = <<>>
    /\ srv_live = {}
    /\ srv_calls = 0
    /\ srv_requested = 0
    /\ srv_port = 0
    /\ srv_attempt = 0
    /\ srv_tried = <<>>
    /\ srv_started = {}
    /\ srv_entry_running = FALSE
    /\ srv_result = "none"
    /\ srv_pc = "idle"

\* tool_compare_pages_2025: pair_products and compare_pairs: not running
PairsIdle ==
    /\ pr_list1 = <<>>
    /\ pr_list2 = <<>>
    /\ pr_doc = FALSE
    /\ pr_pairs = <<>>
    /\ pr_pos = 0
    /\ pr_read = {}
    /\ pr_reported = {}
    /\ pr_annotated = {}
    /\ pr_pc = "idle"

\* tool_compare_assemblage.main not running
M3Idle ==
    /\ m3_doc = <<>>
    /\ m3_ref_pages_data = <<>>
    /\ m3_i = 0
    /\ m3_ref_words = <<>>
    /\ m3_final_words = <<>>
    /\ m3_side = "none"
    /\ m3_pos = 0
    /\ m3_count = 0
    /\ m3_returned = <<>>
    /\ m3_attempts = <<>>
    /\ m3_annots = <<>>
    /\ m3_saved = {}
    /\ m3_pc = "idle"

\* find_words_in_pdf not running
FindIdle ==
    /\ fw_pdf_path = "none"
    /\ fw_words_to_find = <<>>
    /\ fw_max = 0
    /\ fw_phrases = <<>>
    /\ fw_hits = <<>>
    /\ fw_word_counts = <<>>
    /\ fw_page_num = 0
    /\ fw_phrase_pos = 0
    /\ fw_words_in_phrase = <<>>
    /\ fw_pending = <<>>
    /\ fw_pc = "idle"

AlignIdle ==
    /\ ref_words_data = <<>>
    /\ final_words_data = <<>>
    /\ ref_norm = <<>>
    /\ final_norm = <<>>
    /\ ref_counter = <<>>
    /\ final_counter = <<>>
    /\ opcodes = <<>>
    /\ op_pos = 0
    /\ idx1_current = 0
    /\ idx2_current = 0
    /\ ref_writes = <<>>
    /\ final_writes = <<>>
    /\ ref_page_annots = <<>>
    /\ final_page_annots = <<>>
    /\ align_pc = "idle"

DiffIdle ==
    /\ caller = "none"
    /\ service_log = <<>>
    /\ diff_result = <<>>
    /\ filtered = <<>>
    /\ find_calls = <<>>
    /\ results = <<>>
    /\ stats = <<>>
    /\ diff_pc = "idle"

\* no running rectangle
Bbox0 == [x0 |-> 0, y0 |-> 0, x1 |-> 0, y1 |-> 0]

MergeIdle ==
    /\ highlights_added = <<>>
    /\ highlights_moved = <<>>
    /\ changed_mapping = <<>>
    /\ rect_to_word_added = <<>>
    /\ rect_to_word_moved = <<>>
    /\ cur_type = "none"
    /\ entry_pos = 0
    /\ rects_sorted = <<>>
    /\ scan_pos = 0
    /\ current_rect = Bbox0
    /\ current_originals = <<>>
    /\ merged_rects = <<>>
    /\ merged_to_original = <<>>
    /\ doc_annots = <<>>
    /\ total_annotations = 0
    /\ write_log = <<>>
    /\ merge_pc = "idle"

----------------------------------------------------------------------------
(* difflib.SequenceMatcher(None, a, b).get_opcodes(), as called by         *)
(* align_words_assemblage.  Indices are 0-based as in Python; a[i] of the *)
(* code is a[i+1] here.  Lists shorter than 200 items: the autojunk       *)
(* heuristic is inactive.                                                 *)

RECURSIVE RunLen(_, _, _, _, _, _)
\* length of the common run a[i:ahi], b[j:bhi] starting at (i, j)
RunLen(a, b, i, j, ahi, bhi) ==
    IF i < ahi /\ j < bhi /\ a[i + 1] = b[j + 1]
    THEN 1 + RunLen(a, b, i + 1, j + 1, ahi, bhi)
    ELSE 0

\* find_longest_match: the longest matching block in a[alo:ahi], b[blo:bhi];
\* of all maximal blocks the one starting earliest in a, and of those the
\* one starting earliest in b; (alo, blo, 0) when nothing matches
find_longest_match(a, b, alo, ahi, blo, bhi) ==
    LET cands == {<<i, j>> \in (alo..(ahi - 1)) \X (blo..(bhi - 1)) :
                     a[i + 1] = b[j + 1]}
        size(c) == RunLen(a, b, c[1], c[2], ahi, bhi)
    IN  IF cands = {} THEN <<alo, blo, 0>>
        ELSE LET best == CHOOSE c \in cands :
                            \A d \in cands :
                                \/ size(c) > size(d)
                                \/ /\ size(c) = size(d)
                                   /\ \/ c[1] < d[1]
                                      \/ (c[1] = d[1] /\ c[2] <= d[2])
             IN  <<best[1], best[2], size(best)>>

RECURSIVE MatchingBlocksIn(_, _, _, _, _, _)
\* the blocks get_matching_blocks collects from the range and its
\* sub-ranges, in sorted order
MatchingBlocksIn(a, b, alo, ahi, blo, bhi) ==
    LET x == find_longest_match(a, b, alo, ahi, blo, bhi)
        i == x[1]
        j == x[2]
        k == x[3]
    IN  IF k = 0 THEN <<>>
        ELSE (IF alo < i /\ blo < j
              THEN MatchingBlocksIn(a, b, alo, i, blo, j) ELSE <<>>)
             \o <<x>> \o
             (IF i + k < ahi /\ j + k < bhi
              THEN MatchingBlocksIn(a, b, i + k, ahi, j + k, bhi) ELSE <<>>)

RECURSIVE CollapseAdjacent(_, _, _)
\* the non_adjacent loop of get_matching_blocks; cur is (i1, j1, k1)
CollapseAdjacent(blocks, cur, acc) ==
    IF blocks = <<>>
    THEN IF cur[3] # 0 THEN Append(acc, cur) ELSE acc
    ELSE LET x == Head(blocks)
         IN  IF cur[1] + cur[3] = x[1] /\ cur[2] + cur[3] = x[2]
             THEN CollapseAdjacent(Tail(blocks),
                                   <<cur[1], cur[2], cur[3] + x[3]>>, acc)
             ELSE CollapseAdjacent(Tail(blocks), x,
                                   IF cur[3] # 0 THEN Append(acc, cur) ELSE acc)

get_matching_blocks(a, b) ==
    Append(CollapseAdjacent(MatchingBlocksIn(a, b, 0, Len(a), 0, Len(b)),
                            <<0, 0, 0>>, <<>>),
           <<Len(a), Len(b), 0>>)

Opcode(tag, i1, i2, j1, j2) ==
    [tag |-> tag, i1 |-> i1, i2 |-> i2, j1 |-> j1, j2 |-> j2]

RECURSIVE OpcodesFrom(_, _, _)
\* the loop of get_opcodes over the matching blocks, from cursor (i, j)
OpcodesFrom(blocks, i, j) ==
    IF blocks = <<>> THEN <<>>
    ELSE LET ai == Head(blocks)[1]
             bj == Head(blocks)[2]
             size == Head(blocks)[3]
             tag == IF i < ai /\ j < bj THEN "replace"
                    ELSE IF i < ai THEN "delete"
                    ELSE IF j < bj THEN "insert"
                    ELSE ""
         IN  (IF tag # "" THEN <<Opcode(tag, i, ai, j, bj)>> ELSE <<>>)
             \o (IF size # 0
                 THEN <<Opcode("equal", ai, ai + size, bj, bj + size)>>
                 ELSE <<>>)
             \o OpcodesFrom(Tail(blocks), ai + size, bj + size)

get_opcodes(a, b) == OpcodesFrom(get_matching_blocks(a, b), 0, 0)

----------------------------------------------------------------------------
(* tool_compare_assemblage.py: word alignment and move detection *)

\* the texts a word of the reference page can carry
RefTexts == {<<"a">>, <<"b">>, <<"c">>}

\* the texts a word of the final page can carry
FinalTexts == {<<"A">>, <<"b">>, <<"d">>}

\* a word dict as built by extract_page_words_with_boxes and
\* compare_pages_assemblage; rect is the word's box, one per position
WordDict(text, rect) ==
    [text |-> text, rect |-> rect, highlight_color |-> "None"]

WordList(texts) == [i \in 1..Len(texts) |-> WordDict(texts[i], i)]

\* Counter(list): count of every element that occurs
Counter(list) ==
    [t \in Range(list) |-> Cardinality({i \in 1..Len(list) : list[i] = t})]

\* is_moved with the test on the count off by one
is_moved_more_than_once(word_norm, counter) ==
    word_norm \in DOMAIN counter /\ counter[word_norm] > 1

\* word_norm in counter and counter[word_norm] > 0
is_moved(word_norm, counter) ==
    word_norm \in DOMAIN counter /\ counter[word_norm] > 0

RECURSIVE counter_decremented_in_span(_, _, _, _)
\* the table with the count of every word already classified in the span
\* taken down by one
counter_decremented_in_span(counter, norm, start, k) ==
    IF k = 0 THEN counter
    ELSE LET c == counter_decremented_in_span(counter, norm, start, k - 1)
             w == norm[start + k]
         IN  IF w \in DOMAIN c /\ c[w] > 0
             THEN [c EXCEPT ![w] = c[w] - 1] ELSE c

\* the frequency table as read when the word k (0-based) of the span that
\* starts at start is classified: no statement of the loop writes it
counter_read_in_span(counter, norm, start, k) == counter

\* the colour of a ref word taken as moved whatever the table holds
ref_color_ignores_counter(word_norm, counter) == "blue"

\* the colour stored for a ref word of a delete or replace span
ref_color(word_norm, counter) ==
    IF is_moved(word_norm, counter) THEN "blue" ELSE "red"

\* the colour of a final word taken as added whatever the table holds
final_color_ignores_counter(word_norm, counter) == "green"

\* the colour stored for a final word of an insert or replace span
final_color(word_norm, counter) ==
    IF is_moved(word_norm, counter) THEN "blue" ELSE "green"

\* words_data[start + k]["highlight_color"] = color(k) for k in range(n);
\* start is 0-based
StoreColors(words_data, start, n, color(_)) ==
    [p \in 1..Len(words_data) |->
        IF p > start /\ p <= start + n
        THEN [words_data[p] EXCEPT !.highlight_color = color(p - start - 1)]
        ELSE words_data[p]]

CountStores(writes, start, n) ==
    [p \in 1..Len(writes) |->
        IF p > start /\ p <= start + n THEN writes[p] + 1 ELSE writes[p]]

\* advance with the cursor set to the span length instead of moved by it
advance_assigns(idx_current, lo, hi) == hi - lo

\* the cursor after an opcode span of the given length
advance(idx_current, lo, hi) == idx_current + (hi - lo)

\* apply_highlights_to_page without the test that skips uncoloured words
apply_highlights_every_word(words_data) ==
    [i \in 1..Len(words_data) |->
        [rect |-> words_data[i].rect, color |-> words_data[i].highlight_color]]

\* apply_highlights_to_page: one annotation per word that has a colour
RECURSIVE apply_highlights_to_page(_)
apply_highlights_to_page(words_data) ==
    IF words_data = <<>> THEN <<>>
    ELSE LET word == Head(words_data)
             rest == apply_highlights_to_page(Tail(words_data))
         IN  IF word.highlight_color = "None" THEN rest
             ELSE IF word.highlight_color \notin {"red", "green", "blue"} THEN rest
             ELSE <<[rect |-> word.rect, color |-> word.highlight_color]>> \o rest

\* the texts of the two pages compared: every pair of lists within the
\* bound, a page "Brun 200ml" against a page "TES 200ml", and pages with
\* one word that differs in the apostrophe used
PageTexts ==
    (SeqsUpTo(RefTexts, MaxWords) \X SeqsUpTo(FinalTexts, MaxWords))
    \cup {<< <<S_Brun, S_200ml>>, <<S_TES, S_200ml>> >>,
          << <<S_l_eau_curly>>, <<S_l_eau>> >>,
          << <<S_l_eau_modifier>>, <<S_l_eau>> >>}

InitAlign ==
    /\ \E texts \in PageTexts :
        LET rt == texts[1]
            ft == texts[2]
        IN
          /\ ref_words_data = WordList(rt)
          /\ final_words_data = WordList(ft)
          /\ ref_writes = [i \in 1..Len(rt) |-> 0]
          /\ final_writes = [i \in 1..Len(ft) |-> 0]
    /\ ref_norm = <<>>
    /\ final_norm = <<>>
    /\ ref_counter = <<>>
    /\ final_counter = <<>>
    /\ opcodes = <<>>
    /\ op_pos = 0
    /\ idx1_current = 0
    /\ idx2_current = 0
    /\ ref_page_annots = <<>>
    /\ final_page_annots = <<>>
    /\ align_pc = "start"
    /\ MergeIdle
    /\ DiffIdle
    /\ FindIdle
    /\ M3Idle
    /\ CallIdle
    /\ CleanupIdle
    /\ Mode2Idle
    /\ SummaryIdle
    /\ ServerIdle
    /\ PairsIdle

\* align_words_assemblage up to the loop over the opcodes
AlignBegin ==
    /\ align_pc = "start"
    /\ UNCHANGED notAlignVars
    /\ LET rn == [i \in 1..Len(ref_words_data) |->
                    _normalize_word(ref_words_data[i].text)]
           fn == [i \in 1..Len(final_words_data) |->
                    _normalize_word(final_words_data[i].text)]
       IN  /\ ref_norm' = rn
           /\ final_norm' = fn
           /\ ref_counter' = Counter(rn)
           /\ final_counter' = Counter(fn)
           /\ opcodes' = get_opcodes(rn, fn)
    /\ op_pos' = 0
    /\ idx1_current' = 0
    /\ idx2_current' = 0
    /\ align_pc' = "scan"
    /\ UNCHANGED <<ref_words_data, final_words_data, ref_writes, final_writes,
                   ref_page_annots, final_page_annots>>

\* one iteration of the loop over the opcodes: the spans stored on each
\* side are [idx_current, idx_current + n); an index past the end of a list
\* raises IndexError
AlignStep(tag, refSpan, finalSpan) ==
    /\ align_pc = "scan"
    /\ op_pos < Len(opcodes)
    /\ opcodes[op_pos + 1].tag = tag
    /\ UNCHANGED notAlignVars
    /\ LET op == opcodes[op_pos + 1]
           n1 == IF refSpan THEN op.i2 - op.i1 ELSE 0
           n2 == IF finalSpan
                 THEN (IF tag = "equal" THEN op.i2 - op.i1 ELSE op.j2 - op.j1)
                 ELSE 0
           refcol(k) == IF tag = "equal" THEN "None"
                        ELSE ref_color(ref_norm[op.i1 + k + 1],
                                       counter_read_in_span(final_counter,
                                                            ref_norm, op.i1, k))
           fincol(k) == IF tag = "equal" THEN "None"
                        ELSE final_color(final_norm[op.j1 + k + 1],
                                         counter_read_in_span(ref_counter,
                                                              final_norm, op.j1, k))
       IN  IF \/ idx1_current + n1 > Len(ref_words_data)
              \/ idx2_current + n2 > Len(final_words_data)
              \/ (tag # "equal" /\ refSpan /\ op.i1 + n1 > Len(ref_norm))
              \/ (tag # "equal" /\ finalSpan /\ op.j1 + n2 > Len(final_norm))
           THEN /\ align_pc' = "IndexError"
                /\ UNCHANGED <<ref_words_data, final_words_data, ref_writes,
                               final_writes, op_pos, idx1_current, idx2_current>>
           ELSE /\ ref_words_data' =
                       StoreColors(ref_words_data, idx1_current, n1, refcol)
                /\ final_words_data' =
                       StoreColors(final_words_data, idx2_current, n2, fincol)
                /\ ref_writes' = CountStores(ref_writes, idx1_current, n1)
                /\ final_writes' = CountStores(final_writes, idx2_current, n2)
                /\ idx1_current' = IF refSpan
                                   THEN advance(idx1_current, op.i1, op.i2)
                                   ELSE idx1_current
                /\ idx2_current' = IF finalSpan
                                   THEN advance(idx2_current, op.j1, op.j2)
                                   ELSE idx2_current
                /\ op_pos' = op_pos + 1
                /\ align_pc' = "scan"
    /\ UNCHANGED <<ref_norm, final_norm, ref_counter, final_counter, opcodes,
                   ref_page_annots, final_page_annots>>

AlignEqual == AlignStep("equal", TRUE, TRUE)

AlignDelete == AlignStep("delete", TRUE, FALSE)

AlignInsert == AlignStep("insert", FALSE, TRUE)

AlignReplace == AlignStep("replace", TRUE, TRUE)

\* the opcode loop ends and align_words_assemblage returns
AlignReturn ==
    /\ align_pc = "scan"
    /\ UNCHANGED notAlignVars
    /\ op_pos = Len(opcodes)
    /\ align_pc' = "aligned"
    /\ UNCHANGED <<ref_words_data, final_words_data, ref_norm, final_norm,
                   ref_counter, final_counter, opcodes, op_pos, idx1_current,
                   idx2_current, ref_writes, final_writes, ref_page_annots,
                   final_page_annots>>

\* compare_pages_assemblage: highlights of the reference page
ApplyHighlightsRef ==
    /\ align_pc = "aligned"
    /\ UNCHANGED notAlignVars
    /\ ref_page_annots' = apply_highlights_to_page(ref_words_data)
    /\ align_pc' = "ref_applied"
    /\ UNCHANGED <<ref_words_data, final_words_data, ref_norm, final_norm,
                   ref_counter, final_counter, opcodes, op_pos, idx1_current,
                   idx2_current, ref_writes, final_writes, final_page_annots>>

\* compare_pages_assemblage: highlights of the final page
ApplyHighlightsFinal ==
    /\ align_pc = "ref_applied"
    /\ UNCHANGED notAlignVars
    /\ final_page_annots' = apply_highlights_to_page(final_words_data)
    /\ align_pc' = "done"
    /\ UNCHANGED <<ref_words_data, final_words_data, ref_norm, final_norm,
                   ref_counter, final_counter, opcodes, op_pos, idx1_current,
                   idx2_current, ref_writes, final_writes, ref_page_annots>>

NextAlign ==
    \/ AlignBegin
    \/ AlignEqual
    \/ AlignDelete
    \/ AlignInsert
    \/ AlignReplace
    \/ AlignReturn
    \/ ApplyHighlightsRef
    \/ ApplyHighlightsFinal

SpecAlign == InitAlign /\ [][NextAlign]_vars

----------------------------------------------------------------------------
\* tool_compare_assemblage.main: a whole document, page after page

\* the pages a document is made of: a page whose ref words "b c" are
\* replaced by the final word "a", and a page equal on both sides
M3Pages ==
    { [ref |-> << <<"b">>, <<"c">> >>, final |-> << <<"a">> >>],
      [ref |-> << <<"a">> >>, final |-> << <<"a">> >>] }

\* the outcomes of the try body of apply_highlights_to_page: it completes,
\* add_highlight_annot raises, or a call made on the annotation raises
WriteOutcomes == {"ok", "add_failed", "format_failed"}

\* a write in which a failure of a call made on the annotation passes
\* unnoticed
write_counted_unless_add_failed(outcome) == outcome # "add_failed"

\* highlights_added += 1 is reached only when no call of the try body raised
write_counted(outcome) == outcome = "ok"

\* the annotation exists on the page once add_highlight_annot has returned
annot_on_page(outcome) == outcome # "add_failed"

\* an equal span that leaves the colour the record came with
equal_color_keeps_earlier(earlier) == earlier

\* the colour stored for the words of an equal span
equal_color(earlier) == "None"

RECURSIVE align_opcodes(_, _, _, _, _)
\* the loop over the opcodes of align_words_assemblage
align_opcodes(ops, ref, final, idx1, idx2) ==
    IF ops = <<>> THEN <<ref, final>>
    ELSE LET op == Head(ops)
             rn == [i \in 1..Len(ref) |-> _normalize_word(ref[i].text)]
             fn == [i \in 1..Len(final) |-> _normalize_word(final[i].text)]
             n1 == IF op.tag = "insert" THEN 0 ELSE op.i2 - op.i1
             n2 == IF op.tag = "delete" THEN 0
                   ELSE IF op.tag = "equal" THEN op.i2 - op.i1
                   ELSE op.j2 - op.j1
             refcol(k) == IF op.tag = "equal"
                          THEN equal_color(ref[idx1 + k + 1].highlight_color)
                          ELSE ref_color(rn[op.i1 + k + 1],
                                         counter_read_in_span(Counter(fn),
                                                              rn, op.i1, k))
             fincol(k) == IF op.tag = "equal"
                          THEN equal_color(final[idx2 + k + 1].highlight_color)
                          ELSE final_color(fn[op.j1 + k + 1],
                                           counter_read_in_span(Counter(rn),
                                                                fn, op.j1, k))
         IN  align_opcodes(Tail(ops),
                           StoreColors(ref, idx1, n1, refcol),
                           StoreColors(final, idx2, n2, fincol),
                           IF op.tag = "insert" THEN idx1
                           ELSE advance(idx1, op.i1, op.i2),
                           IF op.tag = "delete" THEN idx2
                           ELSE advance(idx2, op.j1, op.j2))

\* align_words_assemblage: the two lists with highlight_color set
align_words_assemblage(ref_words_data_in, final_words_data_in) ==
    LET rn == [i \in 1..Len(ref_words_data_in) |->
                  _normalize_word(ref_words_data_in[i].text)]
        fn == [i \in 1..Len(final_words_data_in) |->
                  _normalize_word(final_words_data_in[i].text)]
    IN  align_opcodes(get_opcodes(rn, fn), ref_words_data_in,
                      final_words_data_in, 0, 0)

\* num_pages of main; the two documents have as many pages as m3_doc
num_pages == Min2(Len(m3_ref_pages_data), Len(m3_doc))

\* the words_data of the call of apply_highlights_to_page that is running
m3_words_data == IF m3_side = "ref" THEN m3_ref_words ELSE m3_final_words

InitM3 ==
    /\ m3_doc \in SeqsUpTo(M3Pages, MaxPages)
    /\ m3_ref_pages_data = <<>>
    /\ m3_i = 0
    /\ m3_ref_words = <<>>
    /\ m3_final_words = <<>>
    /\ m3_side = "none"
    /\ m3_pos = 0
    /\ m3_count = 0
    /\ m3_returned = <<>>
    /\ m3_attempts = <<>>
    /\ m3_annots = <<>>
    /\ m3_saved = {}
    /\ m3_pc = "extract"
    /\ AlignIdle
    /\ MergeIdle
    /\ DiffIdle
    /\ FindIdle
    /\ CallIdle
    /\ CleanupIdle
    /\ Mode2Idle
    /\ SummaryIdle
    /\ ServerIdle
    /\ PairsIdle

\* extract_page_words_with_boxes: one iteration of its loop over the pages
\* of the reference document; page.get_text raising ends main
M3ExtractPage ==
    /\ m3_pc = "extract"
    /\ Len(m3_ref_pages_data) < Len(m3_doc)
    /\ UNCHANGED notM3Vars
    /\ \E get_text_ok \in BOOLEAN :
        IF get_text_ok
        THEN /\ m3_ref_pages_data' =
                    Append(m3_ref_pages_data,
                           WordList(m3_doc[Len(m3_ref_pages_data) + 1].ref))
             /\ m3_pc' = "extract"
        ELSE /\ m3_pc' = "raised"
             /\ UNCHANGED m3_ref_pages_data
    /\ UNCHANGED <<m3_doc, m3_i, m3_ref_words, m3_final_words, m3_side, m3_pos,
                   m3_count, m3_returned, m3_attempts, m3_annots, m3_saved>>

\* extract_page_words_with_boxes returns; main opens the final document and
\* enters its loop over the pages
M3ExtractReturn ==
    /\ m3_pc = "extract"
    /\ Len(m3_ref_pages_data) = Len(m3_doc)
    /\ UNCHANGED notM3Vars
    /\ m3_i' = 0
    /\ m3_pc' = "pages"
    /\ UNCHANGED <<m3_doc, m3_ref_pages_data, m3_ref_words, m3_final_words,
                   m3_side, m3_pos, m3_count, m3_returned, m3_attempts,
                   m3_annots, m3_saved>>

\* compare_pages_assemblage up to the first call of
\* apply_highlights_to_page: the words of the final page are read (a raise
\* ends main) and every word of the two pages is classified
M3ComparePage ==
    /\ m3_pc = "pages"
    /\ m3_i < num_pages
    /\ UNCHANGED notM3Vars
    /\ \E get_text_ok \in BOOLEAN :
        IF get_text_ok
        THEN LET aligned ==
                     align_words_assemblage(m3_ref_pages_data[m3_i + 1],
                                            WordList(m3_doc[m3_i + 1].final))
             IN  /\ m3_ref_words' = aligned[1]
                 /\ m3_final_words' = aligned[2]
                 /\ m3_side' = "ref"
                 /\ m3_pos' = 0
                 /\ m3_count' = 0
                 /\ m3_pc' = "write"
        ELSE /\ m3_pc' = "raised"
             /\ UNCHANGED <<m3_ref_words, m3_final_words, m3_side, m3_pos,
                            m3_count>>
    /\ UNCHANGED <<m3_doc, m3_ref_pages_data, m3_i, m3_returned, m3_attempts,
                   m3_annots, m3_saved>>

\* apply_highlights_to_page: one iteration of the loop over words_data. A
\* word without a colour is passed over; for the others the try body runs,
\* and an exception in it is printed and the loop goes on
M3WriteWord ==
    /\ m3_pc = "write"
    /\ m3_pos < Len(m3_words_data)
    /\ UNCHANGED notM3Vars
    /\ LET word == m3_words_data[m3_pos + 1]
       IN  IF word.highlight_color \notin {"red", "green", "blue"}
           THEN UNCHANGED <<m3_count, m3_attempts, m3_annots>>
           ELSE \E outcome \in WriteOutcomes :
                 /\ m3_attempts' =
                        Append(m3_attempts,
                               [page |-> m3_i, side |-> m3_side,
                                rect |-> word.rect, outcome |-> outcome])
                 /\ m3_annots' =
                        IF annot_on_page(outcome)
                        THEN Append(m3_annots,
                                    [page |-> m3_i, side |-> m3_side,
                                     rect |-> word.rect,
                                     color |-> word.highlight_color,
                                     updated |-> outcome = "ok"])
                        ELSE m3_annots
                 /\ m3_count' = IF write_counted(outcome)
                                THEN m3_count + 1 ELSE m3_count
    /\ m3_pos' = m3_pos + 1
    /\ UNCHANGED <<m3_doc, m3_ref_pages_data, m3_i, m3_ref_words,
                   m3_final_words, m3_side, m3_returned, m3_saved, m3_pc>>

\* apply_highlights_to_page returns highlights_added; after the reference
\* page comes the final page, after the final page the next page of main
M3ApplyReturn ==
    /\ m3_pc = "write"
    /\ m3_pos = Len(m3_words_data)
    /\ UNCHANGED notM3Vars
    /\ m3_returned' = Append(m3_returned, [page |-> m3_i, side |-> m3_side,
                                           words_data |-> m3_words_data,
                                           count |-> m3_count])
    /\ m3_pos' = 0
    /\ m3_count' = 0
    /\ IF m3_side = "ref"
       THEN /\ m3_side' = "final"
            /\ UNCHANGED <<m3_i, m3_pc>>
       ELSE /\ m3_side' = "none"
            /\ m3_i' = m3_i + 1
            /\ m3_pc' = "pages"
    /\ UNCHANGED <<m3_doc, m3_ref_pages_data, m3_ref_words, m3_final_words,
                   m3_attempts, m3_annots, m3_saved>>

\* main after its loop: ref_doc.save
M3SaveRef ==
    /\ m3_pc = "pages"
    /\ m3_i = num_pages
    /\ UNCHANGED notM3Vars
    /\ m3_saved' = m3_saved \cup {"ref"}
    /\ m3_pc' = "ref_saved"
    /\ UNCHANGED <<m3_doc, m3_ref_pages_data, m3_i, m3_ref_words,
                   m3_final_words, m3_side, m3_pos, m3_count, m3_returned,
                   m3_attempts, m3_annots>>

\* main: final_doc.save and return
M3SaveFinal ==
    /\ m3_pc = "ref_saved"
    /\ UNCHANGED notM3Vars
    /\ m3_saved' = m3_saved \cup {"final"}
    /\ m3_pc' = "saved"
    /\ UNCHANGED <<m3_doc, m3_ref_pages_data, m3_i, m3_ref_words,
                   m3_final_words, m3_side, m3_pos, m3_count, m3_returned,
                   m3_attempts, m3_annots>>

NextM3 ==
    \/ M3ExtractPage
    \/ M3ExtractReturn
    \/ M3ComparePage
    \/ M3WriteWord
    \/ M3ApplyReturn
    \/ M3SaveRef
    \/ M3SaveFinal

SpecM3 == InitM3 /\ [][NextM3]_vars

----------------------------------------------------------------------------
\* align_words_assemblage as one call, on word records that may carry a
\* colour from an earlier use

\* the texts of the records passed to the call
CallTexts == {<<"a">>, <<"A">>, <<"b">>}

\* the highlight_color a record can carry when it is passed
EarlierColours == {"None", "blue"}

\* the word lists that can be passed: record p has rect p
CallWordLists ==
    UNION {[1..n -> {[text |-> t, highlight_color |-> c] :
                        t \in CallTexts, c \in EarlierColours}] :
           n \in 0..MaxCallWords}

WithRects(list) ==
    [p \in 1..Len(list) |->
        [text |-> list[p].text, rect |-> p,
         highlight_color |-> list[p].highlight_color]]

InitCall ==
    /\ \E r \in CallWordLists, f \in CallWordLists :
          /\ call_ref_before = WithRects(r)
          /\ call_final_before = WithRects(f)
    /\ call_ref_after = <<>>
    /\ call_final_after = <<>>
    /\ call_pc = "called"
    /\ AlignIdle
    /\ MergeIdle
    /\ DiffIdle
    /\ FindIdle
    /\ M3Idle
    /\ CleanupIdle
    /\ Mode2Idle
    /\ SummaryIdle
    /\ ServerIdle
    /\ PairsIdle

\* the call runs and returns the two lists
AlignCall ==
    /\ call_pc = "called"
    /\ LET aligned == align_words_assemblage(call_ref_before, call_final_before)
       IN  /\ call_ref_after' = aligned[1]
           /\ call_final_after' = aligned[2]
    /\ call_pc' = "returned"
    /\ UNCHANGED <<call_ref_before, call_final_before, notCallVars>>

NextCall == AlignCall

SpecCall == InitCall /\ [][NextCall]_vars

----------------------------------------------------------------------------
(* compare_mode3.py: apply_highlights_to_pdf and add_highlights_for_type.  *)
(* A rect is a fitz.Rect with its object identity id; the rects returned  *)
(* by the backend are non-empty (x0 < x1, y0 < y1).                       *)

HIGHLIGHT_COLOR_ADDED == "green"

HIGHLIGHT_COLOR_MOVED == "blue"

y_tolerance == 10

x_tolerance == 10

Bbox(x0, y0, x1, y1) == [x0 |-> x0, y0 |-> y0, x1 |-> x1, y1 |-> y1]

BboxOf(r) == Bbox(r.x0, r.y0, r.x1, r.y1)

\* the union with x1 taken from the rect merged in
rect_union_x1_of_next(a, b) ==
    Bbox(Min2(a.x0, b.x0), Min2(a.y0, b.y0), b.x1, Max2(a.y1, b.y1))

\* current_rect | next_rect
rect_union(a, b) ==
    Bbox(Min2(a.x0, b.x0), Min2(a.y0, b.y0), Max2(a.x1, b.x1), Max2(a.y1, b.y1))

\* the sort key (r.y0, r.x0)
KeyLess(a, b) == a.y0 < b.y0 \/ (a.y0 = b.y0 /\ a.x0 < b.x0)

RECURSIVE InsertSorted(_, _)
\* r placed after every element whose key is not greater (stable)
InsertSorted(sorted, r) ==
    IF sorted = <<>> THEN <<r>>
    ELSE IF KeyLess(r, Head(sorted)) THEN <<r>> \o sorted
    ELSE <<Head(sorted)>> \o InsertSorted(Tail(sorted), r)

RECURSIVE SortRects(_)
\* sorted(rects, key=lambda r: (r.y0, r.x0))
SortRects(rects) ==
    IF rects = <<>> THEN <<>>
    ELSE InsertSorted(SortRects(SubSeq(rects, 1, Len(rects) - 1)),
                      rects[Len(rects)])

\* the merge test without the horizontal tolerance
merge_condition_no_x_tolerance(cur, nxt) ==
    /\ Abs(cur.y0 - nxt.y0) < y_tolerance
    /\ Abs(cur.y1 - nxt.y1) < y_tolerance
    /\ nxt.x0 <= cur.x1

\* the test that merges next_rect into the running region
merge_condition(cur, nxt) ==
    /\ Abs(cur.y0 - nxt.y0) < y_tolerance
    /\ Abs(cur.y1 - nxt.y1) < y_tolerance
    /\ nxt.x0 <= cur.x1 + x_tolerance

\* merged_to_original[len(merged_rects)-1] = current_originals
\* merged_to_original keeping only the last contributor of a region
RecordOriginals_last_only(m2o, idx, originals) ==
    [k \in (DOMAIN m2o) \cup {idx} |->
        IF k = idx THEN <<originals[Len(originals)]>> ELSE m2o[k]]

\* merged_to_original[len(merged_rects)-1] = current_originals
RecordOriginals(m2o, idx, originals) ==
    [k \in (DOMAIN m2o) \cup {idx} |-> IF k = idx THEN originals ELSE m2o[k]]

\* the state of the scan: running region and closed regions
ScanState(cur, originals, merged, m2o) ==
    [current_rect |-> cur, current_originals |-> originals,
     merged_rects |-> merged, merged_to_original |-> m2o]

\* rects_sorted[0] starts the first region
scan_start(first) == ScanState(BboxOf(first), <<first>>, <<>>, <<>>)

\* one iteration of the loop over rects_sorted[1:]
scan_step(st, next_rect) ==
    IF merge_condition(st.current_rect, next_rect)
    THEN ScanState(rect_union(st.current_rect, BboxOf(next_rect)),
                   Append(st.current_originals, next_rect),
                   st.merged_rects, st.merged_to_original)
    ELSE ScanState(BboxOf(next_rect), <<next_rect>>,
                   Append(st.merged_rects, st.current_rect),
                   RecordOriginals(st.merged_to_original, Len(st.merged_rects),
                                   st.current_originals))

\* "Add last one"
scan_finish(st) ==
    ScanState(st.current_rect, st.current_originals,
              Append(st.merged_rects, st.current_rect),
              RecordOriginals(st.merged_to_original, Len(st.merged_rects),
                              st.current_originals))

RECURSIVE scan_all(_, _)
scan_all(st, rest) ==
    IF rest = <<>> THEN scan_finish(st)
    ELSE scan_all(scan_step(st, Head(rest)), Tail(rest))

\* the merge of one page's rects: merged_rects and merged_to_original
merge_page(rects) ==
    LET sorted == SortRects(rects)
    IN  IF sorted = <<>>
        THEN ScanState(Bbox0, <<>>, <<>>, <<>>)
        ELSE scan_all(scan_start(Head(sorted)), Tail(sorted))

RECURSIVE FirstTracked(_, _)
\* the search word of the first original rect whose id is in rect_to_word;
\* None is the empty string: the code tests both by truth value only
FirstTracked(original_rects, rect_to_word) ==
    IF original_rects = <<>> THEN <<>>
    ELSE IF Head(original_rects).id \in DOMAIN rect_to_word
         THEN rect_to_word[Head(original_rects).id]
         ELSE FirstTracked(Tail(original_rects), rect_to_word)

RECURSIVE FirstKeyMatch_case_sensitive(_, _)
\* the lookup comparing the key as written
FirstKeyMatch_case_sensitive(mapping, search_word) ==
    IF mapping = <<>> THEN <<>>
    ELSE IF Head(mapping)[1] = search_word THEN Head(mapping)
    ELSE FirstKeyMatch_case_sensitive(Tail(mapping), search_word)

RECURSIVE FirstKeyMatch(_, _)
\* the first item of changed_mapping whose key.lower() is search_word, or
\* the empty tuple
FirstKeyMatch(mapping, search_word) ==
    IF mapping = <<>> THEN <<>>
    ELSE IF Lower(Head(mapping)[1]) = search_word THEN Head(mapping)
    ELSE FirstKeyMatch(Tail(mapping), search_word)

\* the title f"AIComparer - {label}"
PlainTitle(label) ==
    IF label = "Moved" THEN "AIComparer - Moved"
    ELSE "AIComparer - Added/Changed"

\* annot.set_info of one merged region; original and new_word are the
\* texts shown in the popup, empty when the popup shows none
annot_info(original_rects, label, is_added_changed, mapping, rect_to_word) ==
    LET generic == [title |-> label, original |-> <<>>, new_word |-> <<>>]
    IN  IF is_added_changed /\ mapping # <<>> /\ DOMAIN rect_to_word # {}
        THEN LET search_word == FirstTracked(original_rects, rect_to_word)
             IN  IF search_word = <<>> THEN generic
                 ELSE LET item == FirstKeyMatch(mapping, search_word)
                      IN  IF item = <<>> THEN generic
                          ELSE IF item[2] = <<>> THEN generic
                          ELSE IF item[2] = S_NEW
                          THEN [title |-> "New Addition", original |-> <<>>,
                                new_word |-> item[1]]
                          ELSE [title |-> "Changed", original |-> item[2],
                                new_word |-> item[1]]
        ELSE [title |-> PlainTitle(label), original |-> <<>>,
              new_word |-> <<>>]

\* the highlight annotations of one page: one per merged rect
page_annotations(page_num, merged, m2o, color, label, is_added_changed,
                 mapping, rect_to_word) ==
    [n \in 1..Len(merged) |->
        LET original_rects == IF (n - 1) \in DOMAIN m2o THEN m2o[n - 1] ELSE <<>>
        IN  [page_num |-> page_num, rect |-> merged[n], color |-> color,
             originals |-> original_rects,
             info |-> annot_info(original_rects, label, is_added_changed,
                                 mapping, rect_to_word)]]

RECURSIVE add_highlights_for_type(_, _, _, _, _, _)
\* add_highlights_for_type over all items of highlights_dict
add_highlights_for_type(highlights_dict, color, label, is_added_changed,
                        mapping, rect_to_word) ==
    IF highlights_dict = <<>> THEN <<>>
    ELSE LET item == Head(highlights_dict)
             st == merge_page(item.rects)
         IN  page_annotations(item.page_num, st.merged_rects,
                              st.merged_to_original, color, label,
                              is_added_changed, mapping, rect_to_word)
             \o add_highlights_for_type(Tail(highlights_dict), color, label,
                                        is_added_changed, mapping, rect_to_word)

\* the two add_highlights_for_type calls of apply_highlights_to_pdf
highlight_annotations(added, moved, mapping, r2w_added, r2w_moved) ==
    add_highlights_for_type(added, HIGHLIGHT_COLOR_ADDED, "Added/Changed",
                            TRUE, mapping, r2w_added)
    \o add_highlights_for_type(moved, HIGHLIGHT_COLOR_MOVED, "Moved",
                               FALSE, mapping, r2w_moved)

----------------------------------------------------------------------------
(* apply_highlights_to_pdf, one rect of the scan at a time *)

\* a hit of find_words_in_pdf: the rect, its page, the phrase searched
Hit(x0, y0, x1, y1, page_num, word) ==
    [x0 |-> x0, y0 |-> y0, x1 |-> x1, y1 |-> y1, page_num |-> page_num,
     word |-> word]

\* the hits the added/changed search can return
AddedHits ==
    { Hit(10, 10, 40, 20, 0, S_brun), Hit(42, 11, 70, 21, 0, S_lot),
      Hit(60, 10, 90, 20, 0, S_brun), Hit(10, 19, 40, 29, 0, S_tes),
      Hit(10, 20, 40, 30, 0, S_lot),  Hit(10, 12, 40, 35, 0, S_brun),
      Hit(50, 10, 60, 20, 0, S_gris),  Hit(42, 11, 70, 21, 1, S_brun) }

\* the hits of the added search in the runs with failing writes: two
\* regions of page 0 and one of page 1
WriteHits ==
    { Hit(10, 10, 40, 20, 0, S_brun), Hit(10, 20, 40, 30, 0, S_lot),
      Hit(42, 11, 70, 21, 1, S_brun) }

\* the hits the moved search can return
MovedHits == { Hit(42, 11, 70, 21, 0, S_lot), Hit(10, 10, 40, 20, 0, S_brun) }

\* the change mapping of the stepwise runs; the service's values are not
\* validated, the last one is the empty string
StepMapping == << <<S_Brun, S_TES>>, <<S_Lot, S_NEW>>, <<S_gris, <<>>>> >>

\* ids of the rect objects of the moved search
MovedIdBase == 100

RectOf(hit, id) ==
    [x0 |-> hit.x0, y0 |-> hit.y0, x1 |-> hit.x1, y1 |-> hit.y1, id |-> id]

RECURSIVE SelectPage(_, _, _, _)
\* the rects of the hits on one page, in hit order; hit n has id base + n
SelectPage(hits, page_num, base, n) ==
    IF n > Len(hits) THEN <<>>
    ELSE (IF hits[n].page_num = page_num
          THEN <<RectOf(hits[n], base + n)>> ELSE <<>>)
         \o SelectPage(hits, page_num, base, n + 1)

RECURSIVE PagesFrom(_, _, _, _)
\* the dict items of the pages n..last that have a hit
PagesFrom(hits, base, n, last) ==
    IF n > last THEN <<>>
    ELSE (IF \E k \in 1..Len(hits) : hits[k].page_num = n
          THEN <<[page_num |-> n, rects |-> SelectPage(hits, n, base, 1)]>>
          ELSE <<>>)
         \o PagesFrom(hits, base, n + 1, last)

\* highlights_by_page as find_words_in_pdf fills it: pages ascending
HighlightsByPage(hits, base) ==
    IF hits = <<>> THEN <<>>
    ELSE PagesFrom(hits, base, 0,
                   CHOOSE m \in {hits[k].page_num : k \in 1..Len(hits)} :
                       \A k \in 1..Len(hits) : hits[k].page_num <= m)

\* rect_to_search_word as find_words_in_pdf fills it
RectToWord(hits, base) ==
    [id \in {base + n : n \in 1..Len(hits)} |-> hits[id - base].word]

\* apply_highlights_to_pdf entered with the hits of the added search drawn
\* from added_hits
InitMergeWith(added_hits) ==
    /\ \E ah \in SeqsUpTo(added_hits, MaxAddedRects),
          mh \in SeqsUpTo(MovedHits, MaxMovedRects) :
          /\ highlights_added = HighlightsByPage(ah, 0)
          /\ highlights_moved = HighlightsByPage(mh, MovedIdBase)
          /\ rect_to_word_added = RectToWord(ah, 0)
          /\ rect_to_word_moved = RectToWord(mh, MovedIdBase)
    /\ changed_mapping = StepMapping
    /\ cur_type = "none"
    /\ entry_pos = 0
    /\ rects_sorted = <<>>
    /\ scan_pos = 0
    /\ current_rect = Bbox0
    /\ current_originals = <<>>
    /\ merged_rects = <<>>
    /\ merged_to_original = <<>>
    /\ doc_annots = <<>>
    /\ total_annotations = 0
    /\ write_log = <<>>
    /\ merge_pc = "start"
    /\ AlignIdle
    /\ DiffIdle
    /\ FindIdle
    /\ M3Idle
    /\ CallIdle
    /\ CleanupIdle
    /\ Mode2Idle
    /\ SummaryIdle
    /\ ServerIdle
    /\ PairsIdle

InitMerge == InitMergeWith(AddedHits)

mergeInputs == <<highlights_added, highlights_moved, changed_mapping,
                 rect_to_word_added, rect_to_word_moved>>

scanVars == <<rects_sorted, scan_pos, current_rect, current_originals,
              merged_rects, merged_to_original>>

\* the rects of both searches on one page, handled as one list
MixedPage(n) ==
    LET of(d) == IF \E k \in 1..Len(d) : d[k].page_num = n
                 THEN d[CHOOSE k \in 1..Len(d) : d[k].page_num = n].rects
                 ELSE <<>>
    IN  [page_num |-> n, rects |-> of(highlights_added) \o of(highlights_moved)]

\* one pass over the rects of both searches instead of one per search
CurDictMixed ==
    IF cur_type = "added"
    THEN SelectSeq(<<MixedPage(0), MixedPage(1)>>, LAMBDA e : e.rects # <<>>)
    ELSE <<>>

\* the highlights_dict argument of the running add_highlights_for_type call
CurDict == IF cur_type = "added" THEN highlights_added ELSE highlights_moved

\* "if highlights_added:" and the call for the added/changed rects
BeginAdded ==
    /\ merge_pc = "start"
    /\ cur_type' = "added"
    /\ entry_pos' = 0
    /\ merge_pc' = IF highlights_added # <<>> THEN "pages" ELSE "added_done"
    /\ total_annotations' = 0
    /\ UNCHANGED <<mergeInputs, scanVars, doc_annots, write_log, notMergeVars>>

\* "if highlights_moved:" and the call for the moved rects
BeginMoved ==
    /\ merge_pc = "added_done"
    /\ cur_type' = "moved"
    /\ entry_pos' = 0
    /\ merge_pc' = IF highlights_moved # <<>> THEN "pages" ELSE "moved_done"
    /\ total_annotations' = 0
    /\ UNCHANGED <<mergeInputs, scanVars, doc_annots, write_log, notMergeVars>>

\* the next item of highlights_dict: sort the rects, start the first region
BeginPage ==
    /\ merge_pc = "pages"
    /\ entry_pos < Len(CurDict)
    /\ LET rects == CurDict[entry_pos + 1].rects
           sorted == SortRects(rects)
       IN  IF rects = <<>>
           THEN /\ entry_pos' = entry_pos + 1
                /\ UNCHANGED <<scanVars, merge_pc>>
           ELSE /\ rects_sorted' = sorted
                /\ current_rect' = scan_start(sorted[1]).current_rect
                /\ current_originals' = scan_start(sorted[1]).current_originals
                /\ merged_rects' = <<>>
                /\ merged_to_original' = <<>>
                /\ scan_pos' = 1
                /\ merge_pc' = "scan"
                /\ UNCHANGED entry_pos
    /\ UNCHANGED <<mergeInputs, cur_type, doc_annots, total_annotations,
                   write_log, notMergeVars>>

\* one iteration of "for next_rect in rects_sorted[1:]"
ScanRect(merge) ==
    /\ merge_pc = "scan"
    /\ scan_pos < Len(rects_sorted)
    /\ LET next_rect == rects_sorted[scan_pos + 1]
           st == scan_step(ScanState(current_rect, current_originals,
                                     merged_rects, merged_to_original),
                           next_rect)
       IN  /\ merge = merge_condition(current_rect, next_rect)
           /\ current_rect' = st.current_rect
           /\ current_originals' = st.current_originals
           /\ merged_rects' = st.merged_rects
           /\ merged_to_original' = st.merged_to_original
    /\ scan_pos' = scan_pos + 1
    /\ UNCHANGED <<mergeInputs, cur_type, entry_pos, rects_sorted, doc_annots,
                   total_annotations, write_log, merge_pc, notMergeVars>>

ScanMerge == ScanRect(TRUE)

ScanClose == ScanRect(FALSE)

\* total_annotations += 1 is the last statement of the try body
count_written(total, attempted, failed) ==
    total + attempted - Cardinality(failed)

\* the sets of regions of a page of n regions whose write raises: none
\* when every try body completes, else any set but the empty one
FailedWrites(n, raises) ==
    IF raises THEN (SUBSET (1..n)) \ {{}} ELSE {{}}

RECURSIVE WrittenOf(_, _, _)
\* the annotations of the regions whose try body completed, in their order
WrittenOf(annots, failed, n) ==
    IF n > Len(annots) THEN <<>>
    ELSE (IF n \in failed THEN <<>> ELSE <<annots[n]>>)
         \o WrittenOf(annots, failed, n + 1)

\* the last region is closed and the page's annotations are written, each
\* in its own try: for the regions in failed a call of the try body raises,
\* the error is printed and the loop goes on
WritePage(raises) ==
    /\ merge_pc = "scan"
    /\ scan_pos = Len(rects_sorted)
    /\ LET st == scan_finish(ScanState(current_rect, current_originals,
                                       merged_rects, merged_to_original))
           annots ==
                 page_annotations(
                     CurDict[entry_pos + 1].page_num, st.merged_rects,
                     st.merged_to_original,
                     IF cur_type = "added" THEN HIGHLIGHT_COLOR_ADDED
                     ELSE HIGHLIGHT_COLOR_MOVED,
                     IF cur_type = "added" THEN "Added/Changed" ELSE "Moved",
                     cur_type = "added", changed_mapping,
                     IF cur_type = "added" THEN rect_to_word_added
                     ELSE rect_to_word_moved)
       IN  /\ merged_rects' = st.merged_rects
           /\ merged_to_original' = st.merged_to_original
           /\ \E failed \in FailedWrites(Len(annots), raises) :
                 /\ doc_annots' = doc_annots \o WrittenOf(annots, failed, 1)
                 /\ total_annotations' =
                        count_written(total_annotations, Len(annots), failed)
                 /\ write_log' = write_log \o
                        [n \in 1..Len(annots) |->
                            [type |-> cur_type,
                             page_num |-> annots[n].page_num,
                             rect |-> annots[n].rect,
                             ok |-> n \notin failed]]
    /\ entry_pos' = entry_pos + 1
    /\ merge_pc' = "pages"
    /\ UNCHANGED <<mergeInputs, cur_type, rects_sorted, scan_pos, current_rect,
                   current_originals, notMergeVars>>

\* the page's regions are written and no call of a try body raises
EndPage == WritePage(FALSE)

\* the page's regions are written and the write of at least one raises
EndPageWriteFails == WritePage(TRUE)

\* the loop over highlights_dict.items() ends
EndType ==
    /\ merge_pc = "pages"
    /\ entry_pos = Len(CurDict)
    /\ merge_pc' = IF cur_type = "added" THEN "added_done" ELSE "moved_done"
    /\ UNCHANGED <<mergeInputs, cur_type, entry_pos, scanVars, doc_annots,
                   total_annotations, write_log, notMergeVars>>

\* doc.save(output_path)
SaveDoc ==
    /\ merge_pc = "moved_done"
    /\ merge_pc' = "saved"
    /\ UNCHANGED <<mergeInputs, cur_type, entry_pos, scanVars, doc_annots,
                   total_annotations, write_log, notMergeVars>>

NextMerge ==
    \/ BeginAdded
    \/ BeginMoved
    \/ BeginPage
    \/ ScanMerge
    \/ ScanClose
    \/ EndPage
    \/ EndType
    \/ SaveDoc

SpecMerge == InitMerge /\ [][NextMerge]_vars

\* the two programs that write highlight annotations, with a backend whose
\* writes can raise: one run is a run of tool_compare_assemblage.main or a
\* run of apply_highlights_to_pdf
InitWrites == InitM3 \/ InitMergeWith(WriteHits)

NextWrites == NextM3 \/ NextMerge \/ EndPageWriteFails

SpecWrites == InitWrites /\ [][NextWrites]_vars

----------------------------------------------------------------------------
(* compare_mode3.py: find_words_in_pdf *)

MAX_HIGHLIGHTS_PER_WORD == 3

\* a word of a page as page.get_text("words") returns it
PageWord(x0, y0, x1, y1, text) ==
    [x0 |-> x0, y0 |-> y0, x1 |-> x1, y1 |-> y1, text |-> text]

\* the pages of PDF A (original)
PDF_A ==
    << << PageWord(10, 10, 40, 20, S_TES), PageWord(42, 11, 70, 21, S_de),
          PageWord(10, 70, 40, 80, S_Lot) >> >>

\* the pages of PDF B (modified)
PDF_B ==
    << << PageWord(10, 10, 40, 20, S_Brun), PageWord(42, 11, 70, 21, S_de),
          PageWord(10, 40, 40, 50, S_Lot),  PageWord(60, 40, 90, 50, S_Brun) >>,
       << PageWord(10, 10, 40, 20, S_Brun), PageWord(45, 10, 75, 20, S_Brun),
          PageWord(10, 40, 40, 50, S_Lot),  PageWord(42, 41, 70, 51, S_de) >> >>

PdfOf(pdf_path) == IF pdf_path = "pdf_a" THEN PDF_A ELSE PDF_B

RECURSIVE UnionOfWords(_)
UnionOfWords(ws) ==
    IF Len(ws) = 1 THEN BboxOf(ws[1])
    ELSE rect_union(BboxOf(ws[1]), UnionOfWords(Tail(ws)))

RECURSIVE SearchFrom(_, _, _)
\* page.search_for(phrase), scanning the page's words from position n: a
\* one-word phrase is found in every word whose text contains it, a phrase
\* of several words where consecutive words spell it; the search ignores
\* letter case
SearchFrom(page, parts, n) ==
    IF n > Len(page) THEN <<>>
    ELSE (IF Len(parts) = 1
          THEN (IF IsSubstring(parts[1], Lower(page[n].text))
                THEN <<BboxOf(page[n])>> ELSE <<>>)
          ELSE (IF /\ n + Len(parts) - 1 <= Len(page)
                   /\ \A k \in 1..Len(parts) :
                         Lower(page[n + k - 1].text) = parts[k]
                THEN <<UnionOfWords(SubSeq(page, n, n + Len(parts) - 1))>>
                ELSE <<>>))
         \o SearchFrom(page, parts, n + 1)

search_for(page, phrase) ==
    IF Split(phrase) = <<>> THEN <<>> ELSE SearchFrom(page, Split(phrase), 1)

\* word_counts[key] of the defaultdict(int)
CountOf(word_counts, key) ==
    IF key \in DOMAIN word_counts THEN word_counts[key] ELSE 0

\* the increment lost
Increment_forgets(word_counts, key) == word_counts

\* word_counts[key] += 1
Increment(word_counts, key) ==
    [k \in (DOMAIN word_counts) \cup {key} |->
        IF k = key THEN CountOf(word_counts, key) + 1 ELSE word_counts[k]]

\* the progress of find_words_in_pdf: the rects appended so far, each with
\* its page and the phrase recorded in rect_to_search_word, and word_counts
FindState(hits, word_counts) == [hits |-> hits, word_counts |-> word_counts]

\* highlights_by_page[page_num].append(rect) with its bookkeeping
AppendHit(fw, page_num, rect, phrase, keys) ==
    FindState(Append(fw.hits, Hit(rect.x0, rect.y0, rect.x1, rect.y1,
                                  page_num, phrase)),
              IF Len(keys) = 1 THEN Increment(fw.word_counts, keys[1])
              ELSE Increment(Increment(fw.word_counts, keys[1]), keys[2]))

RECURSIVE UseInstances(_, _, _, _, _)
\* "Found full phrase - use it": the loop over the first instances
UseInstances(fw, page_num, phrase, text_instances, max) ==
    IF text_instances = <<>> THEN fw
    ELSE LET fw2 == AppendHit(fw, page_num, Head(text_instances), phrase,
                              <<phrase>>)
         IN  IF CountOf(fw2.word_counts, phrase) >= max THEN fw2
             ELSE UseInstances(fw2, page_num, phrase, Tail(text_instances), max)

\* f"{phrase}_{word}"
word_key(phrase, word) == phrase \o <<"_">> \o word

RECURSIVE SearchWord(_, _, _, _, _, _)
\* "for word_info in words_data" of the fallback search for one word
SearchWord(fw, page_num, phrase, word, words_data, max) ==
    IF words_data = <<>> THEN fw
    ELSE LET word_info == Head(words_data)
         IN  IF Lower(Strip(word_info.text)) = Lower(word)
             THEN IF CountOf(fw.word_counts, word_key(phrase, word)) >= max
                  THEN fw
                  ELSE LET fw2 == AppendHit(fw, page_num, BboxOf(word_info),
                                            phrase,
                                            <<word_key(phrase, word), phrase>>)
                       IN  IF CountOf(fw2.word_counts, phrase) >= max THEN fw2
                           ELSE SearchWord(fw2, page_num, phrase, word,
                                           Tail(words_data), max)
             ELSE SearchWord(fw, page_num, phrase, word, Tail(words_data), max)

RECURSIVE SearchWords(_, _, _, _, _, _)
\* "for word in words_in_phrase" of the fallback search
SearchWords(fw, page_num, phrase, words_in_phrase, words_data, max) ==
    IF words_in_phrase = <<>> THEN fw
    ELSE LET word == Head(words_in_phrase)
         IN  IF Lower(word) \in skip_words
             THEN SearchWords(fw, page_num, phrase, Tail(words_in_phrase),
                              words_data, max)
             ELSE LET fw2 == SearchWord(fw, page_num, phrase, word,
                                        words_data, max)
                  IN  IF CountOf(fw2.word_counts, phrase) >= max THEN fw2
                      ELSE SearchWords(fw2, page_num, phrase,
                                       Tail(words_in_phrase), words_data, max)

\* the body of "for phrase in phrases" on one page
SearchPhrase(fw, page_num, page, phrase, max) ==
    IF CountOf(fw.word_counts, phrase) >= max THEN fw
    ELSE LET text_instances == search_for(page, phrase)
         IN  IF text_instances # <<>>
             THEN UseInstances(fw, page_num, phrase,
                               SubSeq(text_instances, 1,
                                      Min2(Len(text_instances),
                                           max - CountOf(fw.word_counts, phrase))),
                               max)
             ELSE SearchWords(fw, page_num, phrase,
                              SelectSeq([k \in 1..Len(Split(phrase)) |->
                                            Strip(Split(phrase)[k])],
                                        LAMBDA w : Len(w) > 2),
                              page, max)

RECURSIVE SearchPhrases(_, _, _, _, _)
SearchPhrases(fw, page_num, page, phrases, max) ==
    IF phrases = <<>> THEN fw
    ELSE SearchPhrases(SearchPhrase(fw, page_num, page, Head(phrases), max),
                       page_num, page, Tail(phrases), max)

RECURSIVE SearchPages(_, _, _, _, _)
\* "for page_num in range(doc.page_count)", from page page_num on
SearchPages(fw, pdf, page_num, phrases, max) ==
    IF page_num >= Len(pdf) THEN fw
    ELSE SearchPages(SearchPhrases(fw, page_num, pdf[page_num + 1], phrases, max),
                     pdf, page_num + 1, phrases, max)

\* the lookup list: w.strip().lower() of every non-blank entry
Phrases(words_to_find) ==
    LET stripped == [k \in 1..Len(words_to_find) |-> Strip(words_to_find[k])]
        kept == SelectSeq(stripped, LAMBDA w : w # <<>>)
    IN  [k \in 1..Len(kept) |-> Lower(kept[k])]

\* find_words_in_pdf: the rects found, in the order they were appended
find_words_in_pdf(pdf_path, words_to_find, max_instances_per_word) ==
    IF words_to_find = <<>> THEN <<>>
    ELSE SearchPages(FindState(<<>>, <<>>), PdfOf(pdf_path), 0,
                     Phrases(words_to_find), max_instances_per_word).hits

----------------------------------------------------------------------------
(* find_words_in_pdf, one loop iteration at a time *)

\* the entries words_to_find is drawn from
FindWords == {S_Brun, S_Lot_de, S_de, S_gris_Lot, S_blank}

InitFind ==
    /\ fw_pdf_path \in {"pdf_a", "pdf_b"}
    /\ fw_words_to_find \in SeqsUpTo(FindWords, MaxFind)
    /\ fw_max \in 1..MAX_HIGHLIGHTS_PER_WORD
    /\ fw_phrases = <<>>
    /\ fw_hits = <<>>
    /\ fw_word_counts = <<>>
    /\ fw_page_num = 0
    /\ fw_phrase_pos = 0
    /\ fw_words_in_phrase = <<>>
    /\ fw_pending = <<>>
    /\ fw_pc = "start"
    /\ AlignIdle
    /\ MergeIdle
    /\ DiffIdle
    /\ M3Idle
    /\ CallIdle
    /\ CleanupIdle
    /\ Mode2Idle
    /\ SummaryIdle
    /\ ServerIdle
    /\ PairsIdle

fwInputs == <<fw_pdf_path, fw_words_to_find, fw_max>>

\* the phrase of the running iteration of "for phrase in phrases"
fw_phrase == fw_phrases[fw_phrase_pos + 1]

\* the page of the running iteration of the loop over the pages
fw_page == PdfOf(fw_pdf_path)[fw_page_num + 1]

\* the iteration for the running phrase ends
FindPhraseDone ==
    /\ fw_phrase_pos' = fw_phrase_pos + 1
    /\ fw_words_in_phrase' = <<>>
    /\ fw_pending' = <<>>
    /\ fw_pc' = "phrase"

\* "if not words_to_find: return" and the construction of phrases
FindBegin ==
    /\ fw_pc = "start"
    /\ IF fw_words_to_find = <<>>
       THEN fw_pc' = "returned" /\ UNCHANGED fw_phrases
       ELSE fw_pc' = "phrase" /\ fw_phrases' = Phrases(fw_words_to_find)
    /\ UNCHANGED <<fwInputs, fw_hits, fw_word_counts, fw_page_num,
                   fw_phrase_pos, fw_words_in_phrase, fw_pending, notFindVars>>

\* all phrases handled on the page: the next page
FindNextPage ==
    /\ fw_pc = "phrase"
    /\ fw_page_num < Len(PdfOf(fw_pdf_path))
    /\ fw_phrase_pos = Len(fw_phrases)
    /\ fw_page_num' = fw_page_num + 1
    /\ fw_phrase_pos' = 0
    /\ UNCHANGED <<fwInputs, fw_phrases, fw_hits, fw_word_counts,
                   fw_words_in_phrase, fw_pending, fw_pc, notFindVars>>

\* "if word_counts[phrase] >= max_instances_per_word: continue"
FindSkipCapped ==
    /\ fw_pc = "phrase"
    /\ fw_page_num < Len(PdfOf(fw_pdf_path))
    /\ fw_phrase_pos < Len(fw_phrases)
    /\ CountOf(fw_word_counts, fw_phrase) >= fw_max
    /\ FindPhraseDone
    /\ UNCHANGED <<fwInputs, fw_phrases, fw_hits, fw_word_counts, fw_page_num,
                   notFindVars>>

\* page.search_for(phrase) and the choice between its instances and the
\* search for the words of the phrase
FindSearchPhrase ==
    /\ fw_pc = "phrase"
    /\ fw_page_num < Len(PdfOf(fw_pdf_path))
    /\ fw_phrase_pos < Len(fw_phrases)
    /\ CountOf(fw_word_counts, fw_phrase) < fw_max
    /\ LET text_instances == search_for(fw_page, fw_phrase)
       IN  IF text_instances # <<>>
           THEN /\ fw_pending' =
                      SubSeq(text_instances, 1,
                             Min2(Len(text_instances),
                                  fw_max - CountOf(fw_word_counts, fw_phrase)))
                /\ fw_words_in_phrase' = <<>>
                /\ fw_pc' = "instances"
           ELSE /\ fw_words_in_phrase' =
                      SelectSeq([k \in 1..Len(Split(fw_phrase)) |->
                                    Strip(Split(fw_phrase)[k])],
                                LAMBDA w : Len(w) > 2)
                /\ fw_pending' = <<>>
                /\ fw_pc' = "words"
    /\ UNCHANGED <<fwInputs, fw_phrases, fw_hits, fw_word_counts, fw_page_num,
                   fw_phrase_pos, notFindVars>>

\* one iteration of "for rect in text_instances[:...]"
FindUseInstance ==
    /\ fw_pc = "instances"
    /\ IF fw_pending = <<>>
       THEN FindPhraseDone /\ UNCHANGED <<fw_hits, fw_word_counts>>
       ELSE LET fw2 == AppendHit(FindState(fw_hits, fw_word_counts),
                                 fw_page_num, Head(fw_pending), fw_phrase,
                                 <<fw_phrase>>)
            IN  /\ fw_hits' = fw2.hits
                /\ fw_word_counts' = fw2.word_counts
                /\ IF CountOf(fw2.word_counts, fw_phrase) >= fw_max
                   THEN FindPhraseDone
                   ELSE /\ fw_pending' = Tail(fw_pending)
                        /\ UNCHANGED <<fw_phrase_pos, fw_words_in_phrase,
                                       fw_pc>>
    /\ UNCHANGED <<fwInputs, fw_phrases, fw_page_num, notFindVars>>

\* one iteration of "for word in words_in_phrase" up to its inner loop
FindFallbackWord ==
    /\ fw_pc = "words"
    /\ IF fw_words_in_phrase = <<>>
       THEN FindPhraseDone
       ELSE IF Lower(Head(fw_words_in_phrase)) \in skip_words
       THEN /\ fw_words_in_phrase' = Tail(fw_words_in_phrase)
            /\ UNCHANGED <<fw_phrase_pos, fw_pending, fw_pc>>
       ELSE /\ fw_pending' = fw_page
            /\ fw_pc' = "word_infos"
            /\ UNCHANGED <<fw_phrase_pos, fw_words_in_phrase>>
    /\ UNCHANGED <<fwInputs, fw_phrases, fw_hits, fw_word_counts, fw_page_num,
                   notFindVars>>

\* the inner loop over words_data ends: "if word_counts[phrase] >= max:
\* break", else the next word of the phrase
FindWordDone(word_counts) ==
    IF CountOf(word_counts, fw_phrase) >= fw_max
    THEN FindPhraseDone
    ELSE /\ fw_words_in_phrase' = Tail(fw_words_in_phrase)
         /\ fw_pending' = <<>>
         /\ fw_pc' = "words"
         /\ UNCHANGED fw_phrase_pos

\* one iteration of "for word_info in words_data"
FindWordInfo ==
    /\ fw_pc = "word_infos"
    /\ LET word == Head(fw_words_in_phrase)
           key == word_key(fw_phrase, word)
       IN  IF fw_pending = <<>>
           THEN FindWordDone(fw_word_counts)
                /\ UNCHANGED <<fw_hits, fw_word_counts>>
           ELSE IF Lower(Strip(Head(fw_pending).text)) # Lower(word)
           THEN /\ fw_pending' = Tail(fw_pending)
                /\ UNCHANGED <<fw_hits, fw_word_counts, fw_phrase_pos,
                               fw_words_in_phrase, fw_pc>>
           ELSE IF CountOf(fw_word_counts, key) >= fw_max
           THEN FindWordDone(fw_word_counts)
                /\ UNCHANGED <<fw_hits, fw_word_counts>>
           ELSE LET fw2 == AppendHit(FindState(fw_hits, fw_word_counts),
                                     fw_page_num, BboxOf(Head(fw_pending)),
                                     fw_phrase, <<key, fw_phrase>>)
                IN  /\ fw_hits' = fw2.hits
                    /\ fw_word_counts' = fw2.word_counts
                    /\ IF CountOf(fw2.word_counts, fw_phrase) >= fw_max
                       THEN FindWordDone(fw2.word_counts)
                       ELSE /\ fw_pending' = Tail(fw_pending)
                            /\ UNCHANGED <<fw_phrase_pos, fw_words_in_phrase,
                                           fw_pc>>
    /\ UNCHANGED <<fwInputs, fw_phrases, fw_page_num, notFindVars>>

\* the loop over the pages ends and find_words_in_pdf returns
FindReturn ==
    /\ fw_pc = "phrase"
    /\ fw_page_num >= Len(PdfOf(fw_pdf_path))
    /\ fw_pc' = "returned"
    /\ UNCHANGED <<fwInputs, fw_phrases, fw_hits, fw_word_counts, fw_page_num,
                   fw_phrase_pos, fw_words_in_phrase, fw_pending, notFindVars>>

NextFind ==
    \/ FindBegin
    \/ FindNextPage
    \/ FindSkipCapped
    \/ FindSearchPhrase
    \/ FindUseInstance
    \/ FindFallbackWord
    \/ FindWordInfo
    \/ FindReturn

SpecFind == InitFind /\ [][NextFind]_vars

----------------------------------------------------------------------------
(* compare_mode3.main and app.compare_pdfs_bidirectional *)

min_word_length == 3

\* the filter without the stop-word test
passes_filter_length_only(w) == Len(w) >= min_word_length

\* len(w) >= 3 and w.lower() not in generic_words
passes_filter(w) == Len(w) >= min_word_length /\ Lower(w) \notin generic_words

\* the change mapping passed on without the filter on its keys
filter_changed_keeps_all(changed_dict) == changed_dict

\* filtered_changed_dict: the items of changed_dict whose key passes
filter_changed(changed_dict) ==
    SelectSeq(changed_dict, LAMBDA item : passes_filter(item[1]))

\* list(d.keys())
Keys(d) == [k \in 1..Len(d) |-> d[k][1]]

\* the replaced words collected without lower()
old_words_case_sensitive(filtered_changed) ==
    {filtered_changed[k][2] :
        k \in {n \in 1..Len(filtered_changed) : filtered_changed[n][2] # S_NEW}}

\* {v.lower() for v in filtered_changed_dict.values() if v != "NEW"}
old_words_that_were_replaced(filtered_changed) ==
    {Lower(filtered_changed[k][2]) :
        k \in {n \in 1..Len(filtered_changed) : filtered_changed[n][2] # S_NEW}}

\* missing_words after its two filters
filter_missing(missing_list, old_words) ==
    SelectSeq(SelectSeq(missing_list, passes_filter),
              LAMBDA w : Lower(w) \notin old_words)

\* the post-processing of one diff-service response
filter_result(r) ==
    LET filtered_changed == filter_changed(r.changed_dict)
    IN  [filtered_changed |-> filtered_changed,
         words_to_highlight |-> Keys(filtered_changed),
         missing_words |->
             filter_missing(r.missing_list,
                            old_words_that_were_replaced(filtered_changed)),
         moved_words |-> r.moved_list]

\* the text box of apply_highlights_to_pdf: the missing words it lists
missing_text_box(missing_words_list) ==
    IF missing_words_list = <<>> THEN <<>>
    ELSE SelectSeq(missing_words_list, LAMBDA w : Len(w) >= 3)

\* apply_highlights_to_pdf: the rect_to_word arguments of the call and what
\* the saved document carries
apply_highlights_to_pdf(hits_added, hits_moved, missing_words_list, mapping) ==
    [copied |-> FALSE,
     rect_to_word_added |-> RectToWord(hits_added, 0),
     rect_to_word_moved |-> RectToWord(hits_moved, MovedIdBase),
     missing_box |-> missing_text_box(missing_words_list),
     annots |-> highlight_annotations(
                    HighlightsByPage(hits_added, 0),
                    HighlightsByPage(hits_moved, MovedIdBase), mapping,
                    RectToWord(hits_added, 0),
                    RectToWord(hits_moved, MovedIdBase))]

\* a call of find_words_in_pdf as the caller made it
FindCall(pdf_path, words_to_find, kind) ==
    [pdf_path |-> pdf_path, words_to_find |-> words_to_find, kind |-> kind]

\* find added/changed words, find moved words, apply: one output document
highlight_document(pdf_path, f) ==
    apply_highlights_to_pdf(
        find_words_in_pdf(pdf_path, f.words_to_highlight, MAX_HIGHLIGHTS_PER_WORD),
        find_words_in_pdf(pdf_path, f.moved_words, MAX_HIGHLIGHTS_PER_WORD),
        f.missing_words, f.filtered_changed)

FindCallsOf(pdf_path, f) ==
    << FindCall(pdf_path, f.words_to_highlight, "added"),
       FindCall(pdf_path, f.moved_words, "moved") >>

\* every direction's step taking the lists of the A->B comparison
inputs_shared_by_directions(f, dir) == f.ab

\* the filtered lists a direction's find and apply calls are given:
\* *_ab for the highlights of B, *_ba for the highlights of A
inputs_of_direction(f, dir) == f[dir]

\* what the diff service can answer
ChangedKeys == {S_de, S_Pot, S_ab, S_Brun}

ChangedValues == {S_NEW, S_TES, S_de}

MissingWords == {S_tes, S_de}

MovedWords == {S_de, S_Lot_de}

ChangedDicts ==
    {d \in SeqsUpTo(ChangedKeys \X ChangedValues, MaxChanged) :
        \A m, n \in 1..Len(d) : m # n => d[m][1] # d[n][1]}

DiffResult(changed_dict, missing_list, moved_list) ==
    [changed_dict |-> changed_dict, missing_list |-> missing_list,
     moved_list |-> moved_list]

Responses ==
    {DiffResult(c, m, v) : c \in ChangedDicts,
                           m \in SeqsUpTo(MissingWords, MaxMissing),
                           v \in SeqsUpTo(MovedWords, MaxMoved)}

\* the text, missing and move fields of the answer all filled
FullResponse == DiffResult(<< <<S_Brun, S_TES>> >>, <<S_tes>>, <<S_Lot_de>>)

\* one run of get_differences_from_openai: where it fails, if anywhere
\* ("client": the client cannot be set up, "encode": a page image cannot
\* be read, "api": the request times out or is refused, "content": the
\* answer carries no text, "json": the answer is not JSON, "not_object":
\* the JSON is not an object), the parsed answer, and the fields of the
\* answer that do not have the expected type
ServiceRun(failure, response, wrong) ==
    [failure |-> failure, response |-> response, wrong |-> wrong]

FailureKinds == {"client", "encode", "api", "content", "json", "not_object"}

EmptyResult == DiffResult(<<>>, <<>>, <<>>)

\* the runs of the service: an answer of the expected form, a failure, or
\* an answer with fields of an unexpected type
ServiceRuns(responses) ==
    {ServiceRun("none", r, {}) : r \in responses}
    \cup {ServiceRun(k, EmptyResult, {}) : k \in FailureKinds}
    \cup {ServiceRun("none", FullResponse, w) :
              w \in (SUBSET {"text", "missing", "move"}) \ {{}}}

\* get_differences_from_openai: the client and the images are prepared
\* before the try statement, the request and the parsing are inside it
get_differences_from_openai(run) ==
    IF run.failure \in {"client", "encode"}
    THEN [raised |-> TRUE, value |-> EmptyResult]
    ELSE IF run.failure \in {"api", "content", "json", "not_object"}
    THEN [raised |-> FALSE, value |-> EmptyResult]
    ELSE [raised |-> FALSE,
          value |-> DiffResult(
              IF "text" \in run.wrong THEN <<>> ELSE run.response.changed_dict,
              IF "missing" \in run.wrong THEN <<>> ELSE run.response.missing_list,
              IF "move" \in run.wrong THEN <<>> ELSE run.response.moved_list)]

\* the entry of service_log for a run
LogEntry(run) == [failure |-> run.failure, wrong |-> run.wrong]

\* answers to the second request of the bidirectional comparison
OtherResponses ==
    { DiffResult(<<>>, <<>>, <<>>),
      DiffResult(<< <<S_TES, S_Brun>> >>, <<S_Lot>>, <<>>) }

InitDiff ==
    /\ caller \in {"main", "app"}
    /\ service_log = <<>>
    /\ diff_result = <<>>
    /\ filtered = <<>>
    /\ find_calls = <<>>
    /\ results = <<>>
    /\ stats = <<>>
    /\ diff_pc = "start"
    /\ AlignIdle
    /\ MergeIdle
    /\ FindIdle
    /\ M3Idle
    /\ CallIdle
    /\ CleanupIdle
    /\ Mode2Idle
    /\ SummaryIdle
    /\ ServerIdle
    /\ PairsIdle

\* main: get_differences_from_openai(images_a, images_b)
MainGetDifferences ==
    /\ caller = "main"
    /\ diff_pc = "start"
    /\ \E run \in ServiceRuns(Responses) :
          LET got == get_differences_from_openai(run)
          IN  /\ service_log' = <<LogEntry(run)>>
              /\ IF got.raised
                 THEN diff_pc' = "raised" /\ UNCHANGED diff_result
                 ELSE diff_pc' = "got" /\ diff_result' = [ab |-> got.value]
    /\ UNCHANGED <<caller, filtered, find_calls, results, stats, notDiffVars>>

\* main: the filtering and the contradiction removal
MainFilter ==
    /\ caller = "main"
    /\ diff_pc = "got"
    /\ filtered' = [ab |-> filter_result(diff_result.ab)]
    /\ diff_pc' = "filtered"
    /\ UNCHANGED <<caller, service_log, diff_result, find_calls, results, stats, notDiffVars>>

\* main: nothing to highlight and nothing missing: PDF B is copied
MainNoChanges ==
    /\ caller = "main"
    /\ diff_pc = "filtered"
    /\ filtered.ab.words_to_highlight = <<>>
    /\ filtered.ab.missing_words = <<>>
    /\ results' = [b |-> [copied |-> TRUE, rect_to_word_added |-> <<>>,
                          rect_to_word_moved |-> <<>>, missing_box |-> <<>>,
                          annots |-> <<>>]]
    /\ diff_pc' = "done"
    /\ UNCHANGED <<caller, service_log, diff_result, filtered, find_calls, stats, notDiffVars>>

\* main: steps 3 and 4
MainHighlight ==
    /\ caller = "main"
    /\ diff_pc = "filtered"
    /\ ~(filtered.ab.words_to_highlight = <<>> /\ filtered.ab.missing_words = <<>>)
    /\ find_calls' = find_calls \o FindCallsOf("pdf_b", filtered.ab)
    /\ results' = [b |-> highlight_document("pdf_b", filtered.ab)]
    /\ diff_pc' = "done"
    /\ UNCHANGED <<caller, service_log, diff_result, filtered, stats, notDiffVars>>

\* the runs of the two requests of the bidirectional comparison: any run
\* with an answer of the expected form to the other request, and an answer
\* of the expected form with any failing run of the other request
AppRuns ==
    {<<r, ServiceRun("none", o, {})>> :
        r \in ServiceRuns(Responses), o \in OtherResponses}
    \cup {<<ServiceRun("none", FullResponse, {}), f>> : f \in ServiceRuns({})}

\* compare_pdfs_bidirectional: the two requests to the diff service
AppGetDifferences ==
    /\ caller = "app"
    /\ diff_pc = "start"
    /\ \E pair \in AppRuns, swap \in BOOLEAN :
          LET r == pair[1]
              o == pair[2]
              first == get_differences_from_openai(IF swap THEN o ELSE r)
              second == get_differences_from_openai(IF swap THEN r ELSE o)
          IN  IF first.raised
              THEN /\ service_log' = <<LogEntry(IF swap THEN o ELSE r)>>
                   /\ diff_pc' = "raised"
                   /\ UNCHANGED diff_result
              ELSE IF second.raised
              THEN /\ service_log' = <<LogEntry(IF swap THEN o ELSE r),
                                       LogEntry(IF swap THEN r ELSE o)>>
                   /\ diff_pc' = "raised"
                   /\ UNCHANGED diff_result
              ELSE /\ service_log' = <<LogEntry(IF swap THEN o ELSE r),
                                       LogEntry(IF swap THEN r ELSE o)>>
                   /\ diff_pc' = "got"
                   /\ diff_result' = [ab |-> first.value, ba |-> second.value]
    /\ UNCHANGED <<caller, filtered, find_calls, results, stats, notDiffVars>>

\* compare_pdfs_bidirectional: the filtering of both directions
AppFilter ==
    /\ caller = "app"
    /\ diff_pc = "got"
    /\ filtered' = [ab |-> filter_result(diff_result.ab),
                    ba |-> filter_result(diff_result.ba)]
    /\ diff_pc' = "filtered"
    /\ UNCHANGED <<caller, service_log, diff_result, find_calls, results, stats, notDiffVars>>

\* compare_pdfs_bidirectional: highlights of B from the A->B comparison
AppHighlightB ==
    /\ caller = "app"
    /\ diff_pc = "filtered"
    /\ LET f == inputs_of_direction(filtered, "ab")
       IN  /\ find_calls' = find_calls \o FindCallsOf("pdf_b", f)
           /\ results' = [b |-> highlight_document("pdf_b", f)]
    /\ diff_pc' = "b_done"
    /\ UNCHANGED <<caller, service_log, diff_result, filtered, stats, notDiffVars>>

\* compare_pdfs_bidirectional: highlights of A from the B->A comparison
AppHighlightA ==
    /\ caller = "app"
    /\ diff_pc = "b_done"
    /\ LET f == inputs_of_direction(filtered, "ba")
       IN  /\ find_calls' = find_calls \o FindCallsOf("pdf_a", f)
           /\ results' = [b |-> results.b, a |-> highlight_document("pdf_a", f)]
    /\ diff_pc' = "a_done"
    /\ UNCHANGED <<caller, service_log, diff_result, filtered, stats, notDiffVars>>

\* stats_b / stats_a
StatsOf(f) ==
    [added |-> Len(f.words_to_highlight), missing |-> Len(f.missing_words),
     moved |-> Len(f.moved_words), changed_dict |-> f.filtered_changed]

\* compare_pdfs_bidirectional: the statistics and the return
AppReturn ==
    /\ caller = "app"
    /\ diff_pc = "a_done"
    /\ stats' = [b |-> StatsOf(inputs_of_direction(filtered, "ab")),
                 a |-> StatsOf(inputs_of_direction(filtered, "ba"))]
    /\ diff_pc' = "done"
    /\ UNCHANGED <<caller, service_log, diff_result, filtered, find_calls, results, notDiffVars>>

NextDiff ==
    \/ MainGetDifferences
    \/ MainFilter
    \/ MainNoChanges
    \/ MainHighlight
    \/ AppGetDifferences
    \/ AppFilter
    \/ AppHighlightB
    \/ AppHighlightA
    \/ AppReturn

SpecDiff == InitDiff /\ [][NextDiff]_vars

----------------------------------------------------------------------------
(* compare_mode3.main: the temporary page images of pdf_to_images *)

\* the image file pdftoppm writes for a page: f"{output_prefix}-{page_num}.png"
ImageFile(doc, page_num) == <<doc, page_num>>

\* the image files of the pages 1 .. n of a document, in page order
ImageFiles(doc, n) == [k \in 1..n |-> ImageFile(doc, k)]

\* how a call of pdf_to_images ends: it returns the paths, pdftoppm.exe is
\* not found (raise before the conversion), or pdftoppm returns non-zero
ConversionOutcomes == {"ok", "not_found", "failed"}

\* how the try body of main is left: by its end, by the return of the
\* "no real content changes" branch, or by an exception of the diff call,
\* of the word search or of the highlighting
TryBodyExits == {"end", "early_return", "diff_raised", "search_raised",
                 "highlight_raised"}

\* "for img_path in images_a + images_b"
cleanup_list(a, b) == a \o b

InitCleanup ==
    /\ cl_pages \in [{"a", "b"} -> 1..MaxPages]
    /\ cl_on_disk = {}
    /\ cl_created = {}
    /\ cl_images_a = <<>>
    /\ cl_images_b = <<>>
    /\ cl_attempted = {}
    /\ cl_pending = <<>>
    /\ cl_exit = "none"
    /\ cl_pc = "convert_a"
    /\ AlignIdle
    /\ MergeIdle
    /\ DiffIdle
    /\ FindIdle
    /\ M3Idle
    /\ CallIdle
    /\ Mode2Idle
    /\ SummaryIdle
    /\ ServerIdle
    /\ PairsIdle

\* pdf_to_images(pdf_path) called by main: a failing pdftoppm may have
\* written the images of the first pages
Convert(doc, next_pc) ==
    /\ \E outcome \in ConversionOutcomes, written \in 0..cl_pages[doc] :
          /\ outcome = "ok" => written = cl_pages[doc]
          /\ outcome = "not_found" => written = 0
          /\ cl_on_disk' = cl_on_disk \cup Range(ImageFiles(doc, written))
          /\ cl_created' = cl_created \cup Range(ImageFiles(doc, written))
          /\ IF outcome = "ok"
             THEN /\ cl_pc' = next_pc
                  /\ IF doc = "a"
                     THEN /\ cl_images_a' = ImageFiles(doc, written)
                          /\ UNCHANGED cl_images_b
                     ELSE /\ cl_images_b' = ImageFiles(doc, written)
                          /\ UNCHANGED cl_images_a
             ELSE /\ cl_pc' = "raised"
                  /\ UNCHANGED <<cl_images_a, cl_images_b>>
    /\ UNCHANGED <<cl_pages, cl_attempted, cl_pending, cl_exit, notCleanupVars>>

\* images_a = pdf_to_images(pdf_a_path)
ConvertA == cl_pc = "convert_a" /\ Convert("a", "convert_b")

\* images_b = pdf_to_images(pdf_b_path)
ConvertB == cl_pc = "convert_b" /\ Convert("b", "try")

\* the try body of main, left in one of its ways; the finally clause starts
TryBody ==
    /\ cl_pc = "try"
    /\ \E exit \in TryBodyExits : cl_exit' = exit
    /\ cl_pending' = cleanup_list(cl_images_a, cl_images_b)
    /\ cl_pc' = "finally"
    /\ UNCHANGED <<cl_pages, cl_on_disk, cl_created, cl_images_a, cl_images_b,
                   cl_attempted, notCleanupVars>>

\* one iteration of the cleanup loop: os.remove(img_path) when the file
\* exists; an exception of os.remove is printed as a warning
CleanupFile ==
    /\ cl_pc = "finally"
    /\ cl_pending # <<>>
    /\ \E removed \in BOOLEAN :
          cl_on_disk' = IF removed THEN cl_on_disk \ {Head(cl_pending)}
                        ELSE cl_on_disk
    /\ cl_attempted' = cl_attempted \cup {Head(cl_pending)}
    /\ cl_pending' = Tail(cl_pending)
    /\ UNCHANGED <<cl_pages, cl_created, cl_images_a, cl_images_b, cl_exit,
                   cl_pc, notCleanupVars>>

\* the finally clause ends: main returns or the exception goes on
CleanupEnd ==
    /\ cl_pc = "finally"
    /\ cl_pending = <<>>
    /\ cl_pc' = IF cl_exit \in {"end", "early_return"} THEN "returned"
                ELSE "raised"
    /\ UNCHANGED <<cl_pages, cl_on_disk, cl_created, cl_images_a, cl_images_b,
                   cl_attempted, cl_pending, cl_exit, notCleanupVars>>

NextCleanup ==
    \/ ConvertA
    \/ ConvertB
    \/ TryBody
    \/ CleanupFile
    \/ CleanupEnd

SpecCleanup == InitCleanup /\ [][NextCleanup]_vars

----------------------------------------------------------------------------
(* tool_compare_app: the Mode 2 check of ToolCompareModeUI *)

\* the values of the mode radio buttons
Modes == {"PAGES_2025", "PAGES_LASOLUTION", "ASSEMBLAGE"}

\* pane1 (left, with popup annotations) and pane2 (right, final file)
Panes == {1, 2}

\* the status strings the prompt of check_annotation_with_gpt asks for
RecognizedStatuses == {"implemented", "not_implemented", "partial", "unclear"}

\* result.get("status", "unclear"): whatever string the answer carries;
\* "done" stands for every string that is none of the four
ModelStatuses == RecognizedStatuses \cup {"done"}

\* the five counters of run_check
Counts(total, implemented, not_implemented, partial, unclear) ==
    [total_checked |-> total, implemented_count |-> implemented,
     not_implemented_count |-> not_implemented, partial_count |-> partial,
     unclear_count |-> unclear]

\* "total_checked += 1" and the if/elif/elif/else on result["status"]
count_status(c, status) ==
    Counts(c.total_checked + 1,
           c.implemented_count + (IF status = "implemented" THEN 1 ELSE 0),
           c.not_implemented_count
               + (IF status = "not_implemented" THEN 1 ELSE 0),
           c.partial_count + (IF status = "partial" THEN 1 ELSE 0),
           c.unclear_count
               + (IF status \notin {"implemented", "not_implemented",
                                    "partial"} THEN 1 ELSE 0))

\* the texts of the status label: "", "Dang kiem tra...", "Da kiem tra
\* {total_checked} annotation(s)" and "Loi"
StatusText(text, total) == [text |-> text, total |-> total]

\* a callback handed to self.master.after(0, ...) by the thread `thread`
Callback(thread, call, counts) ==
    [thread |-> thread, call |-> call, counts |-> counts]

\* a run_check thread at its start
NewWorker(annotations) ==
    [pc |-> "extract", annotations |-> annotations,
     counts |-> Counts(0, 0, 0, 0, 0)]

\* the state _update_check_button_state gives the button
update_check_button_state(ready) ==
    IF ready[1] /\ ready[2] THEN "normal" ELSE "disabled"

\* the threads of run_check that have not ended
RunningWorkers == {t \in 1..Len(workers) : workers[t].pc # "ended"}

\* __init__ / _build_mode_bar: the button is created DISABLED and
\* _update_hint runs once with the initial mode; no document is open
InitMode2 ==
    /\ ui_mode \in Modes
    /\ pane_ready = [p \in Panes |-> FALSE]
    /\ check_button = "disabled"
    /\ status_label = StatusText("", 0)
    /\ stats_label = <<>>
    /\ workers = <<>>
    /\ after_queue = <<>>
    /\ AlignIdle
    /\ MergeIdle
    /\ DiffIdle
    /\ FindIdle
    /\ M3Idle
    /\ CallIdle
    /\ CleanupIdle
    /\ SummaryIdle
    /\ ServerIdle
    /\ PairsIdle

\* a mode radio button is clicked: _update_hint
UpdateHint ==
    /\ ui_mode \in Modes
    /\ \E m \in Modes :
          /\ ui_mode' = m
          /\ check_button' = IF m = "PAGES_LASOLUTION"
                             THEN update_check_button_state(pane_ready)
                             ELSE check_button
    /\ UNCHANGED <<pane_ready, status_label, stats_label, workers,
                   after_queue, notMode2Vars>>

\* a PDF is loaded into a pane: perform_comparison_with_update calls
\* on_pdf_load_hook in every mode
PdfLoad ==
    /\ ui_mode \in Modes
    /\ \E p \in Panes :
          /\ ~pane_ready[p]
          /\ pane_ready' = [pane_ready EXCEPT ![p] = TRUE]
    /\ check_button' = IF ui_mode = "PAGES_LASOLUTION"
                       THEN update_check_button_state(pane_ready')
                       ELSE check_button
    /\ UNCHANGED <<ui_mode, status_label, stats_label, workers, after_queue,
                   notMode2Vars>>

\* the Check button is clicked: _check_annotations_mode2 up to
\* thread.start(); the button's frame is packed in Mode 2 only
CheckAnnotationsMode2 ==
    /\ ui_mode = "PAGES_LASOLUTION"
    /\ check_button = "normal"
    /\ Len(workers) < MaxChecks
    /\ \E paths_exist \in BOOLEAN :
          IF pane_ready[1] /\ pane_ready[2] /\ paths_exist
          THEN /\ status_label' = StatusText("checking", 0)
               /\ check_button' = "disabled"
               /\ workers' = Append(workers, NewWorker(0))
          ELSE UNCHANGED <<status_label, check_button, workers>>
    /\ UNCHANGED <<ui_mode, pane_ready, stats_label, after_queue,
                   notMode2Vars>>

\* run_check: the import and extract_popup_annotations(ref_path)
WorkerExtract ==
    \E t \in 1..Len(workers) :
       /\ workers[t].pc = "extract"
       /\ \E n \in 0..MaxAnnotations, raised \in BOOLEAN :
             IF raised
             THEN /\ workers' = [workers EXCEPT ![t].pc = "except"]
                  /\ UNCHANGED after_queue
             ELSE IF n = 0
             THEN /\ after_queue' =
                        Append(after_queue,
                               Callback(t, "showinfo", workers[t].counts))
                  /\ workers' = [workers EXCEPT ![t].pc = "finally"]
             ELSE /\ workers' = [workers EXCEPT ![t].pc = "client",
                                                ![t].annotations = n]
                  /\ UNCHANGED after_queue
       /\ UNCHANGED <<ui_mode, pane_ready, check_button, status_label,
                      stats_label, notMode2Vars>>

\* run_check: get_openai_client() up to the start of the page loop
WorkerClient ==
    \E t \in 1..Len(workers) :
       /\ workers[t].pc = "client"
       /\ \E outcome \in {"client", "no_client", "raised"} :
             IF outcome = "raised"
             THEN /\ workers' = [workers EXCEPT ![t].pc = "except"]
                  /\ UNCHANGED after_queue
             ELSE IF outcome = "no_client"
             THEN /\ after_queue' =
                        Append(after_queue,
                               Callback(t, "showerror", workers[t].counts))
                  /\ workers' = [workers EXCEPT ![t].pc = "finally"]
             ELSE /\ workers' = [workers EXCEPT ![t].pc = "loop"]
                  /\ UNCHANGED after_queue
       /\ UNCHANGED <<ui_mode, pane_ready, check_button, status_label,
                      stats_label, notMode2Vars>>

\* run_check: one annotation of the page loop; check_annotation_with_gpt
\* returns a status, or reading the page raises
WorkerCheckAnnotation ==
    \E t \in 1..Len(workers) :
       /\ workers[t].pc = "loop"
       /\ workers[t].annotations > 0
       /\ \/ \E status \in ModelStatuses :
                workers' = [workers EXCEPT
                               ![t].counts = count_status(@, status),
                               ![t].annotations = @ - 1]
          \/ workers' = [workers EXCEPT ![t].pc = "except"]
       /\ UNCHANGED <<ui_mode, pane_ready, check_button, status_label,
                      stats_label, after_queue, notMode2Vars>>

\* run_check after the loop: _display_results, ref_doc.close(),
\* _display_summary, _show_results_panel_if_enabled and the status label
WorkerReport ==
    \E t \in 1..Len(workers) :
       /\ workers[t].pc = "loop"
       /\ workers[t].annotations = 0
       /\ \E close_raised \in BOOLEAN :
             LET c == workers[t].counts
                 first == Append(after_queue,
                                 Callback(t, "_display_results", c))
             IN  IF close_raised
                 THEN /\ after_queue' = first
                      /\ workers' = [workers EXCEPT ![t].pc = "except"]
                 ELSE /\ after_queue' =
                            first \o
                            << Callback(t, "_display_summary", c),
                               Callback(t, "_show_results_panel_if_enabled",
                                        c),
                               Callback(t, "status_label_checked", c) >>
                      /\ workers' = [workers EXCEPT ![t].pc = "finally"]
       /\ UNCHANGED <<ui_mode, pane_ready, check_button, status_label,
                      stats_label, notMode2Vars>>

\* run_check: "except Exception as e"
WorkerExcept ==
    \E t \in 1..Len(workers) :
       /\ workers[t].pc = "except"
       /\ after_queue' =
             after_queue \o
             << Callback(t, "showerror", workers[t].counts),
                Callback(t, "status_label_error", workers[t].counts) >>
       /\ workers' = [workers EXCEPT ![t].pc = "finally"]
       /\ UNCHANGED <<ui_mode, pane_ready, check_button, status_label,
                      stats_label, notMode2Vars>>

\* run_check: the finally clause; the thread ends
WorkerFinally ==
    \E t \in 1..Len(workers) :
       /\ workers[t].pc = "finally"
       /\ after_queue' =
             Append(after_queue,
                    Callback(t, "check_button_normal", workers[t].counts))
       /\ workers' = [workers EXCEPT ![t].pc = "ended"]
       /\ UNCHANGED <<ui_mode, pane_ready, check_button, status_label,
                      stats_label, notMode2Vars>>

\* the UI thread runs the oldest callback scheduled with after(0, ...)
RunCallback ==
    /\ after_queue # <<>>
    /\ LET cb == Head(after_queue)
       IN  /\ check_button' = IF cb.call = "check_button_normal"
                              THEN "normal" ELSE check_button
           /\ status_label' =
                 IF cb.call = "status_label_checked"
                 THEN StatusText("checked", cb.counts.total_checked)
                 ELSE IF cb.call = "status_label_error"
                 THEN StatusText("error", 0)
                 ELSE status_label
           /\ stats_label' = IF cb.call = "_display_summary"
                             THEN <<cb.counts>> ELSE stats_label
    /\ after_queue' = Tail(after_queue)
    /\ UNCHANGED <<ui_mode, pane_ready, workers, notMode2Vars>>

NextMode2 ==
    \/ UpdateHint
    \/ PdfLoad
    \/ CheckAnnotationsMode2
    \/ WorkerExtract
    \/ WorkerClient
    \/ WorkerCheckAnnotation
    \/ WorkerReport
    \/ WorkerExcept
    \/ WorkerFinally
    \/ RunCallback

SpecMode2 == InitMode2 /\ [][NextMode2]_vars

----------------------------------------------------------------------------
(* streamlit_helpers.display_mode2_results_summary *)

\* sum(1 for r in results if r.get("status") == status)
count_with_status(mode2_results, status) ==
    Cardinality({k \in 1..Len(mode2_results) : mode2_results[k] = status})

\* the five st.metric values of display_mode2_results_summary
display_mode2_results_summary(mode2_results) ==
    [Total |-> Len(mode2_results),
     Implemented |-> count_with_status(mode2_results, "implemented"),
     NotImplemented |-> count_with_status(mode2_results, "not_implemented"),
     Partial |-> count_with_status(mode2_results, "partial"),
     Unclear |-> count_with_status(mode2_results, "unclear")]

\* st.session_state.mode2_results: the statuses returned by
\* check_annotation_with_gpt, one per annotation
InitSummary ==
    /\ sm_results \in SeqsUpTo(ModelStatuses, MaxResults)
    /\ sm_metrics = <<>>
    /\ sm_pc = "start"
    /\ AlignIdle
    /\ MergeIdle
    /\ DiffIdle
    /\ FindIdle
    /\ M3Idle
    /\ CallIdle
    /\ CleanupIdle
    /\ Mode2Idle
    /\ ServerIdle
    /\ PairsIdle

\* display_mode2_results_summary(results): "No results to display" for
\* an empty list, else the five metrics
DisplaySummary ==
    /\ sm_pc = "start"
    /\ sm_metrics' = IF sm_results = <<>> THEN <<>>
                     ELSE <<display_mode2_results_summary(sm_results)>>
    /\ sm_pc' = "done"
    /\ UNCHANGED <<sm_results, notSummaryVars>>

NextSummary == DisplaySummary

\* the two summaries of a Mode 2 check: the desktop tool's and the web
\* application's
InitSummaries == InitMode2 \/ InitSummary

NextSummaries == NextMode2 \/ NextSummary

SpecSummaries == InitSummaries /\ [][NextSummaries]_vars

----------------------------------------------------------------------------
(* start_http_server of app.py and of pdf_viewer_iframe.py *)

HTTP_SERVER_PORT == 8765

max_attempts == 10

\* the two applications, each with its own start_http_server
ServerVariants == {"app", "pdf_viewer_iframe"}

\* what happens to a port that is tried: is_port_available says no, the
\* bind of TCPServer raises OSError, or the server is bound
PortOutcomes == {"unavailable", "bind_failed", "bound"}

\* the three keys of st.session_state; 0 and "absent" for a key not set
Session(http_server, http_server_running, http_server_port) ==
    [http_server |-> http_server,
     http_server_running |-> http_server_running,
     http_server_port |-> http_server_port]

\* a TCPServer bound to a port; the call that created it identifies it
Server(id, port) == [id |-> id, port |-> port]

\* the tests at the entry of the two functions
marks_running(variant, session) ==
    IF variant = "app"
    THEN session.http_server # 0 /\ session.http_server_running = "True"
    ELSE session.http_server_running = "True"

\* the servers left when an existing server is not shut down
leave_existing(live, session) == live

\* httpd.shutdown() and httpd.server_close() on st.session_state['http_server']
shutdown_existing(live, session) ==
    {s \in live : s.id # session.http_server}

\* a session in which start_http_server has not been called
InitServer ==
    /\ srv_variant \in ServerVariants
    /\ session_state = Session(0, "absent", 0)
    /\ srv_live = {}
    /\ srv_calls = 0
    /\ srv_requested = 0
    /\ srv_port = 0
    /\ srv_attempt = 0
    /\ srv_tried = <<>>
    /\ srv_started = {}
    /\ srv_entry_running = FALSE
    /\ srv_result = "none"
    /\ srv_pc = "ready"
    /\ AlignIdle
    /\ MergeIdle
    /\ DiffIdle
    /\ FindIdle
    /\ M3Idle
    /\ CallIdle
    /\ CleanupIdle
    /\ Mode2Idle
    /\ SummaryIdle
    /\ PairsIdle

\* start_http_server(port) up to the port loop: pdf_viewer_iframe returns
\* True when the session marks a running server, app.py shuts that server
\* down and clears the mark
StartHttpServer ==
    /\ srv_pc \in {"ready", "returned"}
    /\ srv_calls < MaxCalls
    /\ srv_calls' = srv_calls + 1
    /\ srv_requested' = HTTP_SERVER_PORT
    /\ srv_port' = HTTP_SERVER_PORT
    /\ srv_attempt' = 0
    /\ srv_tried' = <<>>
    /\ srv_started' = {}
    /\ srv_entry_running' = marks_running(srv_variant, session_state)
    /\ IF marks_running(srv_variant, session_state)
       THEN IF srv_variant = "app"
            THEN /\ srv_live' = shutdown_existing(srv_live, session_state)
                 /\ session_state' =
                       [session_state EXCEPT !.http_server_running = "False"]
                 /\ srv_result' = "none"
                 /\ srv_pc' = "loop"
            ELSE /\ srv_result' = "True"
                 /\ srv_pc' = "returned"
                 /\ UNCHANGED <<srv_live, session_state>>
       ELSE /\ srv_result' = "none"
            /\ srv_pc' = "loop"
            /\ UNCHANGED <<srv_live, session_state>>
    /\ UNCHANGED <<srv_variant, notServerVars>>

\* one iteration of "for attempt in range(max_attempts)"
TryPort ==
    /\ srv_pc = "loop"
    /\ srv_attempt < max_attempts
    /\ \E outcome \in PortOutcomes :
          /\ outcome = "bound" => \A s \in srv_live : s.port # srv_port
          /\ srv_tried' = Append(srv_tried,
                                 [port |-> srv_port, outcome |-> outcome])
          /\ IF outcome = "bound"
             THEN /\ srv_live' = srv_live \cup {Server(srv_calls, srv_port)}
                  /\ srv_started' =
                        srv_started \cup {Server(srv_calls, srv_port)}
                  /\ session_state' = Session(srv_calls, "True", srv_port)
                  /\ srv_result' = "True"
                  /\ srv_pc' = "returned"
                  /\ UNCHANGED <<srv_port, srv_attempt>>
             ELSE /\ UNCHANGED <<srv_live, srv_started, session_state>>
                  /\ IF outcome = "unavailable" /\ srv_variant = "app"
                        /\ srv_attempt = max_attempts - 1
                     THEN /\ srv_result' = "False"
                          /\ srv_pc' = "returned"
                          /\ UNCHANGED <<srv_port, srv_attempt>>
                     ELSE /\ srv_port' = srv_port + 1
                          /\ IF outcome = "bind_failed"
                                /\ srv_attempt = max_attempts - 1
                             THEN /\ srv_result' = "False"
                                  /\ srv_pc' = "returned"
                                  /\ UNCHANGED srv_attempt
                             ELSE /\ srv_attempt' = srv_attempt + 1
                                  /\ UNCHANGED <<srv_result, srv_pc>>
    /\ UNCHANGED <<srv_variant, srv_calls, srv_requested, srv_entry_running,
                   notServerVars>>

\* the "return False" behind the loop
LoopExhausted ==
    /\ srv_pc = "loop"
    /\ srv_attempt = max_attempts
    /\ srv_result' = "False"
    /\ srv_pc' = "returned"
    /\ UNCHANGED <<srv_variant, session_state, srv_live, srv_calls,
                   srv_requested, srv_port, srv_attempt, srv_tried,
                   srv_started, srv_entry_running, notServerVars>>

NextServer ==
    \/ StartHttpServer
    \/ TryPort
    \/ LoopExhausted

SpecServer == InitServer /\ [][NextServer]_vars

----------------------------------------------------------------------------
(* tool_compare_pages_2025: pair_products and compare_pairs *)

\* perceptual hashes as the sets of their 1 bits
HashValues == {{}, 1..23, 1..24, 1..25}

\* abs(p1["hash"] - p2["hash"]): the number of differing bits
hash_distance(h1, h2) == Cardinality((h1 \ h2) \cup (h2 \ h1))

\* the inner loop of pair_products over list2[1..n] for one product:
\* best (0 for None) and best_dist, replaced on a strictly smaller distance
RECURSIVE best_partner(_, _, _)
best_partner(h1, list2, n) ==
    IF n = 0 THEN [best |-> 0, best_dist |-> 9999]
    ELSE LET before == best_partner(h1, list2, n - 1)
             dist == hash_distance(h1, list2[n])
         IN  IF dist < before.best_dist
             THEN [best |-> n, best_dist |-> dist]
             ELSE before

\* pairs of pair_products: (p1, best, best_dist) per product of list1
pair_products(list1, list2) ==
    [k \in 1..Len(list1) |->
        LET b == best_partner(list1[k], list2, Len(list2))
        IN  [p1 |-> k, p2 |-> b.best, dist |-> b.best_dist]]

\* the test that lets compare_pairs go on with a pair
passes_threshold(dist) == ~(dist > 24)

InitPairs ==
    /\ pr_list1 \in SeqsUpTo(HashValues, MaxProducts) \ {<<>>}
    /\ pr_list2 \in SeqsUpTo(HashValues, MaxProducts)
    /\ pr_doc \in BOOLEAN
    /\ pr_pairs = <<>>
    /\ pr_pos = 0
    /\ pr_read = {}
    /\ pr_reported = {}
    /\ pr_annotated = {}
    /\ pr_pc = "pair"
    /\ AlignIdle
    /\ MergeIdle
    /\ DiffIdle
    /\ FindIdle
    /\ M3Idle
    /\ CallIdle
    /\ CleanupIdle
    /\ Mode2Idle
    /\ SummaryIdle
    /\ ServerIdle

\* pairs = pair_products(list1, list2)
PairProducts ==
    /\ pr_pc = "pair"
    /\ pr_pairs' = pair_products(pr_list1, pr_list2)
    /\ pr_pc' = "compare"
    /\ UNCHANGED <<pr_list1, pr_list2, pr_doc, pr_pos, pr_read, pr_reported,
                   pr_annotated, notPairsVars>>

\* one iteration of "for p1, p2, dist in pairs" of compare_pairs
ComparePair ==
    /\ pr_pc = "compare"
    /\ pr_pos < Len(pr_pairs)
    /\ pr_pos' = pr_pos + 1
    /\ IF passes_threshold(pr_pairs[pr_pos + 1].dist)
       THEN /\ pr_read' = pr_read \cup {pr_pos + 1}
            /\ pr_reported' = pr_reported \cup {pr_pos + 1}
            /\ pr_annotated' = IF pr_doc THEN pr_annotated \cup {pr_pos + 1}
                               ELSE pr_annotated
       ELSE UNCHANGED <<pr_read, pr_reported, pr_annotated>>
    /\ UNCHANGED <<pr_list1, pr_list2, pr_doc, pr_pairs, pr_pc, notPairsVars>>

\* the end of compare_pairs: the annotated PDF is saved if it was opened
ComparePairsEnd ==
    /\ pr_pc = "compare"
    /\ pr_pos = Len(pr_pairs)
    /\ pr_pc' = "done"
    /\ UNCHANGED <<pr_list1, pr_list2, pr_doc, pr_pairs, pr_pos, pr_read,
                   pr_reported, pr_annotated, notPairsVars>>

NextPairs ==
    \/ PairProducts
    \/ ComparePair
    \/ ComparePairsEnd

SpecPairs == InitPairs /\ [][NextPairs]_vars

----------------------------------------------------------------------------
(* Properties of the word alignment *)

AlignReturned == align_pc \in {"aligned", "ref_applied", "done"}

\* the normalized text occurs somewhere in the word list
OccursIn(text, words_data) ==
    \E j \in 1..Len(words_data) :
        _normalize_word(words_data[j].text) = _normalize_word(text)

\* 1-based position p lies in an equal span already scanned
RefInEqualSpan(p) ==
    \E n \in 1..op_pos :
        opcodes[n].tag = "equal" /\ opcodes[n].i1 < p /\ p <= opcodes[n].i2

FinalInEqualSpan(p) ==
    \E n \in 1..op_pos :
        opcodes[n].tag = "equal" /\ opcodes[n].j1 < p /\ p <= opcodes[n].j2

\* C1: every ref word of a scanned delete or replace span is blue when its
\* normalized text occurs anywhere in the final list and red otherwise;
\* every final word of a scanned insert or replace span is blue when its
\* normalized text occurs anywhere in the ref list and green otherwise; after
\* the scan a word present in both lists but outside every equal span is
\* blue on its side.
C1_MoveClassification ==
    /\ \A n \in 1..op_pos :
          LET op == opcodes[n]
          IN  /\ op.tag \in {"delete", "replace"} =>
                    \A p \in (op.i1 + 1)..op.i2 :
                        ref_words_data[p].highlight_color =
                            IF OccursIn(ref_words_data[p].text, final_words_data)
                            THEN "blue" ELSE "red"
              /\ op.tag \in {"insert", "replace"} =>
                    \A p \in (op.j1 + 1)..op.j2 :
                        final_words_data[p].highlight_color =
                            IF OccursIn(final_words_data[p].text, ref_words_data)
                            THEN "blue" ELSE "green"
    /\ AlignReturned =>
          /\ \A p \in 1..Len(ref_words_data) :
                (~RefInEqualSpan(p)
                 /\ OccursIn(ref_words_data[p].text, final_words_data))
                => ref_words_data[p].highlight_color = "blue"
          /\ \A p \in 1..Len(final_words_data) :
                (~FinalInEqualSpan(p)
                 /\ OccursIn(final_words_data[p].text, ref_words_data))
                => final_words_data[p].highlight_color = "blue"

\* a finished alignment with a deleted and a moved ref word and an added and
\* a moved final word
C1_Witness ==
    /\ AlignReturned
    /\ \E p \in 1..Len(ref_words_data) : ref_words_data[p].highlight_color = "red"
    /\ \E p \in 1..Len(ref_words_data) : ref_words_data[p].highlight_color = "blue"
    /\ \E p \in 1..Len(final_words_data) :
          final_words_data[p].highlight_color = "green"
    /\ \E p \in 1..Len(final_words_data) :
          final_words_data[p].highlight_color = "blue"
    /\ \E n \in 1..Len(opcodes) : opcodes[n].tag = "replace"
    /\ \E n \in 1..Len(opcodes) : opcodes[n].tag = "insert"

\* the opcode list starts at (0,0), each opcode starts where the previous
\* one ended, and the list ends at (la, lb)
IsPartition(ops, la, lb) ==
    /\ ops = <<>> => (la = 0 /\ lb = 0)
    /\ ops # <<>> =>
          /\ ops[1].i1 = 0 /\ ops[1].j1 = 0
          /\ ops[Len(ops)].i2 = la /\ ops[Len(ops)].j2 = lb
    /\ \A n \in 1..Len(ops) :
          /\ ops[n].i1 <= ops[n].i2 /\ ops[n].j1 <= ops[n].j2
          /\ n > 1 => (ops[n].i1 = ops[n - 1].i2 /\ ops[n].j1 = ops[n - 1].j2)

\* C2: the opcode list scanned by align_words_assemblage partitions both
\* word lists without gap or overlap; the cursors idx1_current and
\* idx2_current equal i1 and j1 at the start of every opcode; no store
\* indexes past the end of a list; and when the function returns every word
\* of both lists has been assigned its highlight_color exactly once.
C2_OpcodePartition ==
    /\ align_pc # "IndexError"
    /\ align_pc # "start" =>
          IsPartition(opcodes, Len(ref_words_data), Len(final_words_data))
    /\ (align_pc = "scan" /\ op_pos < Len(opcodes)) =>
          /\ idx1_current = opcodes[op_pos + 1].i1
          /\ idx2_current = opcodes[op_pos + 1].j1
    /\ \A p \in 1..Len(ref_writes) : ref_writes[p] <= 1
    /\ \A p \in 1..Len(final_writes) : final_writes[p] <= 1
    /\ AlignReturned =>
          /\ idx1_current = Len(ref_words_data)
          /\ idx2_current = Len(final_words_data)
          /\ \A p \in 1..Len(ref_writes) : ref_writes[p] = 1
          /\ \A p \in 1..Len(final_writes) : final_writes[p] = 1

\* a finished scan of at least three opcodes over two non-empty lists
C2_Witness ==
    /\ AlignReturned
    /\ Len(opcodes) >= 3
    /\ op_pos = Len(opcodes)
    /\ Len(ref_words_data) >= 2
    /\ Len(final_words_data) >= 2
    /\ \E n \in 1..Len(opcodes) : opcodes[n].tag = "delete"

SameNormalizedTexts ==
    /\ Len(ref_words_data) = Len(final_words_data)
    /\ \A p \in 1..Len(ref_words_data) :
          _normalize_word(ref_words_data[p].text) =
              _normalize_word(final_words_data[p].text)

\* C3: when both word lists carry the same normalized text sequence, the
\* alignment has only equal opcodes, every word of both lists keeps
\* highlight_color None, and no highlight is written to either page.
C3_SelfComparison ==
    SameNormalizedTexts =>
        /\ \A n \in 1..Len(opcodes) : opcodes[n].tag = "equal"
        /\ \A p \in 1..Len(ref_words_data) :
              ref_words_data[p].highlight_color = "None"
        /\ \A p \in 1..Len(final_words_data) :
              final_words_data[p].highlight_color = "None"
        /\ ref_page_annots = <<>>
        /\ final_page_annots = <<>>

\* a finished comparison of two equal-normalized lists whose raw texts differ
C3_Witness ==
    /\ SameNormalizedTexts
    /\ align_pc = "done"
    /\ Len(ref_words_data) >= 2
    /\ Len(opcodes) = 1
    /\ \E p \in 1..Len(ref_words_data) :
          ref_words_data[p].text # final_words_data[p].text

\* the equal opcode (0 when there is none) whose ref span holds position p
EqualSpanOfRef(p) ==
    IF RefInEqualSpan(p)
    THEN CHOOSE n \in 1..op_pos :
            opcodes[n].tag = "equal" /\ opcodes[n].i1 < p /\ p <= opcodes[n].i2
    ELSE 0

\* C21: after align_words_assemblage a ref word is red exactly when its
\* normalized text occurs nowhere in the final list and a final word is
\* green exactly when its normalized text occurs nowhere in the ref list;
\* ref words are None, red or blue and final words None, green or blue; a
\* ref word left None lies in an equal span, and the final word at the same
\* offset of that span has the same normalized text and is None as well.
C21_RedGreenIffAbsent ==
    AlignReturned =>
        /\ \A p \in 1..Len(ref_words_data) :
              /\ ref_words_data[p].highlight_color \in {"None", "red", "blue"}
              /\ ref_words_data[p].highlight_color = "red"
                    <=> ~OccursIn(ref_words_data[p].text, final_words_data)
              /\ ref_words_data[p].highlight_color = "None" =>
                    /\ EqualSpanOfRef(p) # 0
                    /\ LET op == opcodes[EqualSpanOfRef(p)]
                           q == op.j1 + (p - op.i1)
                       IN  /\ q \in 1..Len(final_words_data)
                           /\ final_norm[q] = ref_norm[p]
                           /\ final_words_data[q].highlight_color = "None"
        /\ \A p \in 1..Len(final_words_data) :
              /\ final_words_data[p].highlight_color \in {"None", "green", "blue"}
              /\ final_words_data[p].highlight_color = "green"
                    <=> ~OccursIn(final_words_data[p].text, ref_words_data)
              /\ final_words_data[p].highlight_color = "None" =>
                    FinalInEqualSpan(p)

\* a finished alignment with a red, a blue and an unhighlighted ref word
\* and a green final word
C21_Witness ==
    /\ AlignReturned
    /\ Len(ref_words_data) = 3
    /\ \E p \in 1..3 : ref_words_data[p].highlight_color = "red"
    /\ \E p \in 1..3 : ref_words_data[p].highlight_color = "blue"
    /\ \E p \in 1..3 : ref_words_data[p].highlight_color = "None"
    /\ \E p \in 1..Len(final_words_data) :
          final_words_data[p].highlight_color = "green"

\* the records with highlight_color None
WithoutColours(list) ==
    [p \in 1..Len(list) |-> [list[p] EXCEPT !.highlight_color = "None"]]

Coloured(words_data) ==
    {p \in 1..Len(words_data) : words_data[p].highlight_color # "None"}

\* C12: ref_counter and final_counter are the counts of the normalized
\* texts from the start of the scan on and no step of the scan or after it
\* changes them; a coloured ref word is blue exactly when its normalized
\* text occurs in the final list, a coloured final word is blue exactly
\* when its normalized text occurs in the ref list, and two coloured words
\* of one list with the same normalized text have the same colour.
C12_CountersReadOnly ==
    /\ [][align_pc # "start" =>
            /\ ref_counter' = ref_counter
            /\ final_counter' = final_counter]_vars
    /\ [](align_pc # "start" =>
            /\ ref_counter = Counter(ref_norm)
            /\ final_counter = Counter(final_norm)
            /\ \A p \in Coloured(ref_words_data) :
                  /\ ref_words_data[p].highlight_color =
                        IF OccursIn(ref_words_data[p].text, final_words_data)
                        THEN "blue" ELSE "red"
                  /\ \A q \in Coloured(ref_words_data) :
                        ref_norm[p] = ref_norm[q] =>
                            ref_words_data[p].highlight_color =
                                ref_words_data[q].highlight_color
            /\ \A p \in Coloured(final_words_data) :
                  /\ final_words_data[p].highlight_color =
                        IF OccursIn(final_words_data[p].text, ref_words_data)
                        THEN "blue" ELSE "green"
                  /\ \A q \in Coloured(final_words_data) :
                        final_norm[p] = final_norm[q] =>
                            final_words_data[p].highlight_color =
                                final_words_data[q].highlight_color)

\* a finished alignment with two coloured ref words of the same text that
\* occurs once in the final list, outside every equal span
C12_Witness ==
    /\ AlignReturned
    /\ \E p, q \in Coloured(ref_words_data) :
          /\ p # q
          /\ ref_norm[p] = ref_norm[q]
          /\ ref_norm[p] \in DOMAIN final_counter
          /\ final_counter[ref_norm[p]] = 1
          /\ ref_words_data[p].highlight_color = "blue"

\* the final list is the ref list with the word at position p replaced by
\* a word whose normalized text is not in the ref list
SubstitutedAt(p) ==
    /\ Len(ref_norm) = Len(final_norm)
    /\ p \in 1..Len(ref_norm)
    /\ \A q \in 1..Len(ref_norm) : (ref_norm[q] = final_norm[q]) <=> (q # p)
    /\ \A q \in 1..Len(ref_norm) : ref_norm[q] # final_norm[p]

\* one red ref word and one green final word at position p, nothing else
OneDeletedOneAdded(p) ==
    /\ \A q \in 1..Len(ref_words_data) :
          ref_words_data[q].highlight_color = IF q = p THEN "red" ELSE "None"
    /\ \A q \in 1..Len(final_words_data) :
          final_words_data[q].highlight_color =
              IF q = p THEN "green" ELSE "None"

ExampleSubstitution ==
    /\ Len(ref_words_data) = 2 /\ Len(final_words_data) = 2
    /\ ref_words_data[1].text = S_Brun /\ ref_words_data[2].text = S_200ml
    /\ final_words_data[1].text = S_TES /\ final_words_data[2].text = S_200ml

FoldedChar(c) ==
    CASE c \in {"U2018", "U2019", "U02BC"} -> "'"
      [] c \in {"U201C", "U201D"} -> "DQUOTE"
      [] OTHER -> LowerChar(c)

\* two words that differ only in letter case or in the quote variant used
DifferOnlyInCaseOrQuotes(v, w) ==
    /\ Len(v) = Len(w)
    /\ \A i \in 1..Len(v) : FoldedChar(v[i]) = FoldedChar(w[i])

\* C14 (the claim as stated): _normalize_word gives the same string for
\* any two words that differ only in letter case or in the quote variant
\* used, such words of the two pages at the same position of equal-length
\* pages get no colour, and normalizing twice gives what normalizing once
\* gives.
C14_QuoteVariantsNormalized ==
    /\ \A p \in 1..Len(ref_words_data), q \in 1..Len(final_words_data) :
          /\ DifferOnlyInCaseOrQuotes(ref_words_data[p].text,
                                      final_words_data[q].text)
                => _normalize_word(ref_words_data[p].text) =
                       _normalize_word(final_words_data[q].text)
          /\ _normalize_word(_normalize_word(ref_words_data[p].text)) =
                 _normalize_word(ref_words_data[p].text)
          /\ _normalize_word(_normalize_word(final_words_data[q].text)) =
                 _normalize_word(final_words_data[q].text)
    /\ (/\ AlignReturned
        /\ Len(ref_words_data) = Len(final_words_data)
        /\ \A p \in 1..Len(ref_words_data) :
              DifferOnlyInCaseOrQuotes(ref_words_data[p].text,
                                       final_words_data[p].text))
          => /\ Coloured(ref_words_data) = {}
             /\ Coloured(final_words_data) = {}

----------------------------------------------------------------------------
(* Properties of the region merging *)

\* ids of the rect objects found by the added/changed search
AddedIds ==
    UNION {{highlights_added[k].rects[n].id :
               n \in 1..Len(highlights_added[k].rects)} :
           k \in 1..Len(highlights_added)}

\* ids of the rect objects found by the moved search
MovedIds ==
    UNION {{highlights_moved[k].rects[n].id :
               n \in 1..Len(highlights_moved[k].rects)} :
           k \in 1..Len(highlights_moved)}

AllAdded(rects) == \A n \in 1..Len(rects) : rects[n].id \in AddedIds

AllMoved(rects) == \A n \in 1..Len(rects) : rects[n].id \in MovedIds

\* C5: every merged region written by apply_highlights_to_pdf, and the
\* running region of the scan, is built from rects of one classification
\* only (all from the added/changed search or all from the moved search),
\* and a written region is drawn in the colour of that classification.
C5_HomogeneousRegions ==
    /\ AddedIds \cap MovedIds = {}
    /\ \A n \in 1..Len(doc_annots) :
          /\ doc_annots[n].originals # <<>>
          /\ \/ /\ AllAdded(doc_annots[n].originals)
                /\ doc_annots[n].color = HIGHLIGHT_COLOR_ADDED
             \/ /\ AllMoved(doc_annots[n].originals)
                /\ doc_annots[n].color = HIGHLIGHT_COLOR_MOVED
    /\ AllAdded(current_originals) \/ AllMoved(current_originals)

\* a saved document with an added region and a moved region at the same
\* place of the same page, the added one merged from two rects
C5_Witness ==
    /\ merge_pc = "saved"
    /\ \E n, m \in 1..Len(doc_annots) :
          /\ doc_annots[n].color = HIGHLIGHT_COLOR_ADDED
          /\ doc_annots[m].color = HIGHLIGHT_COLOR_MOVED
          /\ doc_annots[n].page_num = doc_annots[m].page_num
          /\ Len(doc_annots[n].originals) = 2
          /\ \E k \in 1..2 :
                BboxOf(doc_annots[n].originals[k]) = doc_annots[m].rect

\* the minimal axis-aligned rectangle enclosing a non-empty list of rects
EnclosingBox(rects) ==
    LET idx == 1..Len(rects)
    IN  [x0 |-> CHOOSE v \in {rects[n].x0 : n \in idx} :
                    \A n \in idx : v <= rects[n].x0,
         y0 |-> CHOOSE v \in {rects[n].y0 : n \in idx} :
                    \A n \in idx : v <= rects[n].y0,
         x1 |-> CHOOSE v \in {rects[n].x1 : n \in idx} :
                    \A n \in idx : v >= rects[n].x1,
         y1 |-> CHOOSE v \in {rects[n].y1 : n \in idx} :
                    \A n \in idx : v >= rects[n].y1]

\* C6: after every step of the scan the running rectangle is the minimal
\* rectangle enclosing current_originals, every closed region is the
\* minimal rectangle enclosing merged_to_original[idx], and so is every
\* region written to the document.
C6_MinimalEnclosingBox ==
    /\ merge_pc = "scan" =>
          /\ current_originals # <<>>
          /\ current_rect = EnclosingBox(current_originals)
    /\ \A n \in 1..Len(merged_rects) :
          /\ (n - 1) \in DOMAIN merged_to_original
          /\ merged_to_original[n - 1] # <<>>
          /\ merged_rects[n] = EnclosingBox(merged_to_original[n - 1])
    /\ \A n \in 1..Len(doc_annots) :
          doc_annots[n].rect = EnclosingBox(doc_annots[n].originals)

\* in the middle of a scan: a closed region merged from two rects and
\* larger than each of them, and a running region
C6_Witness ==
    /\ merge_pc = "scan"
    /\ Len(merged_rects) >= 1
    /\ Len(merged_to_original[0]) >= 2
    /\ \A n \in 1..Len(merged_to_original[0]) :
          merged_rects[1] # BboxOf(merged_to_original[0][n])
    /\ current_originals # <<>>

Example4Rects == <<Bbox(10, 10, 40, 20), Bbox(42, 11, 70, 21)>>

\* C7: the scan takes the rects in (y0, x0) order, one per step; the next
\* rect joins the running region exactly when |y0 - y0'| < 10 and
\* |y1 - y1'| < 10 and x0' <= x1 + 10 against the running merged rectangle,
\* and otherwise the running region is closed and the rect starts a new
\* one; the rects (10,10,40,20) and (42,11,70,21) end as one region
\* (10,10,70,21) with two contributing rects.
C7_MergeRule ==
    /\ [][(merge_pc = "scan" /\ scan_pos < Len(rects_sorted)) =>
            LET nxt == rects_sorted[scan_pos + 1]
                joins == /\ Abs(current_rect.y0 - nxt.y0) < 10
                         /\ Abs(current_rect.y1 - nxt.y1) < 10
                         /\ nxt.x0 <= current_rect.x1 + 10
            IN  /\ scan_pos' = scan_pos + 1
                /\ joins =>
                      /\ current_originals' = Append(current_originals, nxt)
                      /\ merged_rects' = merged_rects
                /\ ~joins =>
                      /\ current_originals' = <<nxt>>
                      /\ current_rect' = BboxOf(nxt)
                      /\ merged_rects' = Append(merged_rects, current_rect)
                      /\ merged_to_original'[Len(merged_rects)] =
                             current_originals]_vars
    /\ [](/\ \A n \in 1..(Len(rects_sorted) - 1) :
                ~KeyLess(rects_sorted[n + 1], rects_sorted[n])
          /\ (/\ merge_pc = "pages"
              /\ [n \in 1..Len(rects_sorted) |-> BboxOf(rects_sorted[n])]
                     = Example4Rects) =>
                /\ merged_rects = <<Bbox(10, 10, 70, 21)>>
                /\ Len(merged_to_original[0]) = 2)

\* the two example rects merged and a third rect left as a region of its own
C7_Witness ==
    /\ merge_pc = "pages"
    /\ Len(rects_sorted) = 3
    /\ BboxOf(rects_sorted[1]) = Example4Rects[1]
    /\ BboxOf(rects_sorted[2]) = Example4Rects[2]
    /\ Len(merged_rects) = 2
    /\ merged_rects[1] = Bbox(10, 10, 70, 21)
    /\ Len(merged_to_original[0]) = 2

RECURSIVE Contributors(_, _)
\* the contributor lists of the regions 0 .. k-1, one after the other
Contributors(m2o, k) ==
    IF k = 0 THEN <<>> ELSE Contributors(m2o, k - 1) \o m2o[k - 1]

\* C23: region merging keeps provenance as a partition. rects_sorted holds
\* the rects of the page, each once, in (y0, x0) order; during the scan the
\* contributor lists of the closed regions followed by those of the open
\* region are the rects scanned so far, in that order; when the page is
\* done merged_to_original has an entry for each region index and no
\* other, the contributor lists one after the other are rects_sorted (so
\* each rect is in exactly one list and the counts sum to the number of
\* rects), and there are between 1 and Len(rects_sorted) regions.
C23_ProvenancePartition ==
    /\ merge_pc = "scan" =>
          LET rects == CurDict[entry_pos + 1].rects
          IN  /\ Len(rects_sorted) = Len(rects)
              /\ \A r \in Range(rects) :
                    Cardinality({n \in 1..Len(rects_sorted) :
                                    rects_sorted[n] = r}) = 1
              /\ \A n \in 1..(Len(rects_sorted) - 1) :
                    ~KeyLess(rects_sorted[n + 1], rects_sorted[n])
              /\ DOMAIN merged_to_original = 0..(Len(merged_rects) - 1)
              /\ Contributors(merged_to_original, Len(merged_rects))
                     \o current_originals = SubSeq(rects_sorted, 1, scan_pos)
    /\ (merge_pc = "pages" /\ rects_sorted # <<>>) =>
          /\ DOMAIN merged_to_original = 0..(Len(merged_rects) - 1)
          /\ Contributors(merged_to_original, Len(merged_rects)) = rects_sorted
          /\ \A r \in Range(rects_sorted) :
                Cardinality({k \in DOMAIN merged_to_original :
                                r \in Range(merged_to_original[k])}) = 1
          /\ \A k \in DOMAIN merged_to_original : merged_to_original[k] # <<>>
          /\ Len(merged_rects) >= 1
          /\ Len(merged_rects) <= Len(rects_sorted)

\* a page done whose three rects, passed in another order than the sorted
\* one, end as a region of one rect and a region of two
C23_Witness ==
    /\ merge_pc = "pages"
    /\ entry_pos >= 1
    /\ Len(rects_sorted) = 3
    /\ CurDict[entry_pos].rects # rects_sorted
    /\ Len(merged_rects) = 2
    /\ Len(merged_to_original[0]) = 1
    /\ Len(merged_to_original[1]) = 2

\* the mapping items whose lower-cased key is the phrase
KeyMatches(phrase) ==
    {k \in 1..Len(changed_mapping) : Lower(changed_mapping[k][1]) = phrase}

\* the phrases recorded for the contributing rects of a written region
PhrasesOfRegion(a) ==
    {rect_to_word_added[a.originals[n].id] : n \in 1..Len(a.originals)}

GenericAdded(info) ==
    /\ info.title \in {"Added/Changed", "AIComparer - Added/Changed"}
    /\ info.original = <<>>
    /\ info.new_word = <<>>

\* the label the claim gives a region for one search phrase
LabelFor(info, phrase) ==
    IF KeyMatches(phrase) = {} THEN GenericAdded(info)
    ELSE \E k \in KeyMatches(phrase) :
            IF changed_mapping[k][2] = S_NEW
            THEN /\ info.title = "New Addition"
                 /\ info.new_word = changed_mapping[k][1]
            ELSE /\ info.title = "Changed"
                 /\ info.original = changed_mapping[k][2]
                 /\ info.new_word = changed_mapping[k][1]

----------------------------------------------------------------------------
(* Properties of the diff-service post-processing *)

\* the direction whose results are written to an output document
DirOf(doc) == IF doc = "b" THEN "ab" ELSE "ba"

\* w has the minimum length and is not a stop word, letter case ignored
Meaningful(w) ==
    /\ Len(w) >= 3
    /\ \A g \in generic_words : Lower(w) # g

\* the values other than "NEW" of a change mapping
ReplacedValues(mapping) ==
    {mapping[k][2] : k \in {n \in 1..Len(mapping) : mapping[n][2] # S_NEW}}

SameIgnoringCase(v, w) == Lower(v) = Lower(w)

\* C4: after contradiction resolution, in main and in both directions of
\* compare_pdfs_bidirectional, no retained missing entry, no entry shown in
\* the missing-words box of the output document and none counted in the
\* statistics equals, letter case ignored, a value other than "NEW" of the
\* filtered change mapping.
C4_NoContradiction ==
    /\ \A dir \in DOMAIN filtered :
          \A n \in 1..Len(filtered[dir].missing_words) :
              \A v \in ReplacedValues(filtered[dir].filtered_changed) :
                  ~SameIgnoringCase(filtered[dir].missing_words[n], v)
    /\ \A doc \in DOMAIN results :
          \A n \in 1..Len(results[doc].missing_box) :
              \A v \in ReplacedValues(filtered[DirOf(doc)].filtered_changed) :
                  ~SameIgnoringCase(results[doc].missing_box[n], v)
    /\ \A doc \in DOMAIN stats :
          stats[doc].missing =
              Cardinality({n \in 1..Len(diff_result[DirOf(doc)].missing_list) :
                  /\ Meaningful(diff_result[DirOf(doc)].missing_list[n])
                  /\ \A v \in ReplacedValues(stats[doc].changed_dict) :
                        ~SameIgnoringCase(
                            diff_result[DirOf(doc)].missing_list[n], v)})

\* a finished bidirectional run whose A->B response listed as missing a word
\* that differs only in case from a replaced value of the filtered mapping
C4_Witness ==
    /\ caller = "app"
    /\ diff_pc = "done"
    /\ \E n \in 1..Len(diff_result.ab.missing_list) :
          \E v \in ReplacedValues(filtered.ab.filtered_changed) :
              /\ SameIgnoringCase(diff_result.ab.missing_list[n], v)
              /\ diff_result.ab.missing_list[n] # v
    /\ stats.b.missing = 0

\* the added/changed regions of an output document
AddedRegions(doc) ==
    {n \in 1..Len(results[doc].annots) :
        results[doc].annots[n].color = HIGHLIGHT_COLOR_ADDED}

\* the search phrases behind the rects of a region
PhrasesOf(doc, n) ==
    {results[doc].rect_to_word_added[results[doc].annots[n].originals[k].id] :
        k \in 1..Len(results[doc].annots[n].originals)}

\* C8: a response whose only content is one change with new word "de"
\* yields an output document without any highlight region; and no key of
\* the change mapping that is shorter than 3 characters or, letter case
\* ignored, a stop word is among the words given to find_words_in_pdf for
\* the added/changed search, nor is it the search phrase of a rect of an
\* added/changed region.
C8_StopWordChanges ==
    /\ \A doc \in DOMAIN results :
          LET r == diff_result[DirOf(doc)]
          IN  (/\ Len(r.changed_dict) = 1
               /\ r.changed_dict[1][1] = S_de
               /\ r.missing_list = <<>>
               /\ r.moved_list = <<>>) => results[doc].annots = <<>>
    /\ \A c \in 1..Len(find_calls) :
          find_calls[c].kind = "added" =>
              \A n \in 1..Len(find_calls[c].words_to_find) :
                  Meaningful(find_calls[c].words_to_find[n])
    /\ \A doc \in DOMAIN results :
          \A k \in 1..Len(diff_result[DirOf(doc)].changed_dict) :
              LET key == diff_result[DirOf(doc)].changed_dict[k][1]
              IN  ~Meaningful(key) =>
                      \A n \in AddedRegions(doc) :
                          Lower(Strip(key)) \notin PhrasesOf(doc, n)

\* main ended on the response ({"de": "TES"}, [], []) with no region
C8_Witness ==
    /\ caller = "main"
    /\ diff_pc = "done"
    /\ diff_result.ab = DiffResult(<< <<S_de, S_TES>> >>, <<>>, <<>>)
    /\ results.b.annots = <<>>

\* C9 (the claim as stated): no candidate of any class that is shorter
\* than 3 characters or a stop word is given to find_words_in_pdf or is
\* the search phrase of a highlight rect.
C9_PreFilterEveryClass ==
    /\ \A c \in 1..Len(find_calls) :
          \A n \in 1..Len(find_calls[c].words_to_find) :
              Meaningful(find_calls[c].words_to_find[n])
    /\ \A doc \in DOMAIN results :
          \A id \in DOMAIN results[doc].rect_to_word_moved :
              Meaningful(results[doc].rect_to_word_moved[id])

OutputOf(pdf_path, response) ==
    highlight_document(pdf_path, filter_result(response))

\* C16: in compare_pdfs_bidirectional the document written for B is what
\* PDF B and the A->B response alone determine and the document written
\* for A what PDF A and the B->A response alone determine, and so are the
\* statistics; the steps of one direction leave the responses, the
\* filtered lists and the other direction's written document as they
\* were.
C16_DirectionsIndependent ==
    /\ [][(caller = "app" /\ diff_pc \in {"filtered", "b_done", "a_done"}) =>
            /\ diff_result' = diff_result
            /\ filtered' = filtered
            /\ \A doc \in DOMAIN results :
                  doc \in DOMAIN results' /\ results'[doc] = results[doc]]_vars
    /\ [](caller = "app" =>
            /\ "b" \in DOMAIN results =>
                  results.b = OutputOf("pdf_b", diff_result.ab)
            /\ "a" \in DOMAIN results =>
                  results.a = OutputOf("pdf_a", diff_result.ba)
            /\ "b" \in DOMAIN stats =>
                  stats.b = StatsOf(filter_result(diff_result.ab))
            /\ "a" \in DOMAIN stats =>
                  stats.a = StatsOf(filter_result(diff_result.ba)))

\* a finished bidirectional run with different responses for the two
\* directions, highlights in both documents and different statistics
C16_Witness ==
    /\ caller = "app"
    /\ diff_pc = "done"
    /\ diff_result.ab # diff_result.ba
    /\ results.a.annots # <<>>
    /\ results.b.annots # <<>>
    /\ results.a.annots # results.b.annots
    /\ stats.a # stats.b

\* the direction whose response the n-th call of the service gives
DirectionOfCall(n) == IF n = 1 THEN "ab" ELSE "ba"

\* C17 (the claim as stated): no failure inside get_differences_from_openai
\* is raised to the caller; after a run that failed the result of the
\* call is ({}, [], []), a field of an unexpected type is replaced by its
\* empty value, and the caller goes on with that result.
C17_ServiceFailureNeverFatal ==
    /\ diff_pc # "raised"
    /\ diff_pc \notin {"idle", "start", "raised"} =>
          \A n \in 1..Len(service_log) :
              LET got == diff_result[DirectionOfCall(n)]
              IN  /\ service_log[n].failure # "none" => got = EmptyResult
                  /\ "text" \in service_log[n].wrong => got.changed_dict = <<>>
                  /\ "missing" \in service_log[n].wrong => got.missing_list = <<>>
                  /\ "move" \in service_log[n].wrong => got.moved_list = <<>>

\* the moved items reported to main that the search locates in PDF B
MovedHitsInB ==
    find_words_in_pdf("pdf_b", diff_result.ab.moved_list, MAX_HIGHLIGHTS_PER_WORD)

\* C24: in compare_mode3.main, whenever the diff service reports a non-empty
\* moved list, every rect the search locates for it in PDF B lies in a blue
\* highlight of the output PDF, whatever the changed and missing results
\* are. (When nothing to highlight and nothing missing is left after the
\* filtering, main copies PDF B and returns before the moved search.)
C24_MovedHighlightedInMain ==
    (caller = "main" /\ diff_pc = "done" /\ diff_result.ab.moved_list # <<>>) =>
        \A h \in 1..Len(MovedHitsInB) :
            \E n \in 1..Len(results.b.annots) :
                LET a == results.b.annots[n]
                IN  /\ a.color = HIGHLIGHT_COLOR_MOVED
                    /\ a.page_num = MovedHitsInB[h].page_num
                    /\ a.rect.x0 <= MovedHitsInB[h].x0
                    /\ a.rect.y0 <= MovedHitsInB[h].y0
                    /\ a.rect.x1 >= MovedHitsInB[h].x1
                    /\ a.rect.y1 >= MovedHitsInB[h].y1

----------------------------------------------------------------------------
(* Properties of find_words_in_pdf *)

\* the number of rects recorded so far for a phrase
RecordedFor(phrase) ==
    Cardinality({n \in 1..Len(fw_hits) : fw_hits[n].word = phrase})

\* C15: at every step of find_words_in_pdf and at its return the number
\* of rects recorded for a phrase, over all pages and over the full-phrase
\* and the per-word search, is at most max_instances_per_word and equals
\* word_counts[phrase]; the rects returned are those of the one-call form.
C15_PerPhraseCap ==
    /\ \A n \in 1..Len(fw_phrases) :
          /\ RecordedFor(fw_phrases[n]) <= fw_max
          /\ RecordedFor(fw_phrases[n]) = CountOf(fw_word_counts, fw_phrases[n])
    /\ \A n \in 1..Len(fw_hits) :
          \E k \in 1..Len(fw_phrases) : fw_hits[n].word = fw_phrases[k]
    /\ fw_pc = "returned" =>
          fw_hits = find_words_in_pdf(fw_pdf_path, fw_words_to_find, fw_max)

\* a returned search with the same phrase twice in words_to_find, its
\* rects on two pages, exactly max_instances_per_word of them, fewer than
\* the document holds
C15_Witness ==
    /\ fw_pc = "returned"
    /\ Len(fw_phrases) = 2
    /\ fw_phrases[1] = fw_phrases[2]
    /\ fw_max = 3
    /\ RecordedFor(fw_phrases[1]) = fw_max
    /\ \E n, m \in 1..Len(fw_hits) : fw_hits[n].page_num # fw_hits[m].page_num

\* a search stopped by the cap inside the per-word search
C15_WitnessFallback ==
    /\ fw_pc = "returned"
    /\ fw_max = 1
    /\ fw_phrases = <<Lower(S_Lot_de)>>
    /\ Len(fw_hits) = 1
    /\ fw_hits[1].page_num = 0

----------------------------------------------------------------------------
\* Properties of tool_compare_assemblage.main

\* the rects of the words that align_words_assemblage gave a colour, for a
\* page handed to apply_highlights_to_page
ComputedHighlights(call) ==
    {call.words_data[k].rect :
        k \in {j \in 1..Len(call.words_data) :
                  call.words_data[j].highlight_color # "None"}}

\* the rects of the annotations present on page p of one document
WrittenHighlights(p, side) ==
    {m3_annots[k].rect : k \in {j \in 1..Len(m3_annots) :
                                  /\ m3_annots[j].page = p
                                  /\ m3_annots[j].side = side}}

\* the write attempts made on page p of one document
AttemptsOn(p, side) ==
    {k \in 1..Len(m3_attempts) :
        m3_attempts[k].page = p /\ m3_attempts[k].side = side}

\* the write attempts of one add_highlights_for_type call whose try body
\* completed
WritesOk(type) ==
    {k \in 1..Len(write_log) : write_log[k].type = type /\ write_log[k].ok}

C18_WitnessRegions ==
    /\ merge_pc = "saved"
    /\ Len(write_log) >= 3
    /\ ~write_log[1].ok
    /\ \E n \in 2..Len(write_log) :
          /\ write_log[n].ok
          /\ write_log[n].type = "added"
          /\ write_log[n].page_num > write_log[1].page_num
    /\ \E n \in 2..Len(write_log) :
          write_log[n].ok /\ write_log[n].type = "moved"
    /\ total_annotations = 1

\* C19: extraction failure is isolated per page: when the backend cannot
\* supply the words of one page, main still ends with the two output PDFs
\* saved. (main has no handler: the exception ends it before any save.)
C19_ExtractionFailureIsolated ==
    m3_pc = "raised" => m3_saved = {"ref", "final"}

\* C20: per-page atomic application: once apply_highlights_to_page has
\* returned for a page, either all of the page's computed highlights are
\* on the page or none is. (A write that raises is passed over and the
\* others of the page stay.)
C20_PageAtomic ==
    \A k \in 1..Len(m3_returned) :
        LET p == m3_returned[k].page
            side == m3_returned[k].side
        IN  \/ WrittenHighlights(p, side) = ComputedHighlights(m3_returned[k])
            \/ WrittenHighlights(p, side) = {}

----------------------------------------------------------------------------
\* Properties of the temporary images of compare_mode3.main

\* C25: temporary page images are always cleaned up: when main has returned
\* or an exception has left it, the removal of every image file created by
\* pdf_to_images has been attempted. (The try statement starts after both
\* conversions: an exception of the second conversion leaves the images
\* of PDF A, and a failing pdftoppm leaves what it wrote.)
C25_TempImagesCleaned ==
    cl_pc \in {"returned", "raised"} => cl_created \subseteq cl_attempted

----------------------------------------------------------------------------
(* Properties of the Mode 2 check and its summaries *)

\* the four category counts of the desktop summary add up to its total
StatsExhaustive(c) ==
    c.implemented_count + c.not_implemented_count + c.partial_count
        + c.unclear_count = c.total_checked

\* the four category metrics of the web summary add up to its Total
MetricsExhaustive(m) ==
    m.Implemented + m.NotImplemented + m.Partial + m.Unclear = m.Total

\* C26: in every summary of a Mode 2 check, whatever status strings
\* were returned, implemented + not_implemented + partial + unclear equals
\* the number of checked annotations, in the statistics shown by
\* _display_summary and in the metrics of display_mode2_results_summary
C26_SummaryCountsExhaustive ==
    /\ \A k \in 1..Len(stats_label) : StatsExhaustive(stats_label[k])
    /\ \A k \in 1..Len(sm_metrics) : MetricsExhaustive(sm_metrics[k])

\* C27: while a run_check thread is running the Check button is
\* disabled, and at most one run_check thread is running
C27_SingleCheckThread ==
    /\ RunningWorkers # {} => check_button = "disabled"
    /\ Cardinality(RunningWorkers) <= 1

\* the pending callbacks of thread t, as positions of after_queue
CallbacksOf(t) == {i \in 1..Len(after_queue) : after_queue[i].thread = t}

\* the re-enable of the button is behind every other pending callback of
\* its thread
ReenableLast(t) ==
    \A i, j \in CallbacksOf(t) :
       after_queue[i].call = "check_button_normal" => j <= i

\* C28: a run_check thread that has ended has scheduled the re-enable of
\* the button after its other UI updates, and once the callbacks of a
\* single check have run, the status label shows the checked-count message
\* or the error message
C28_ReenabledAndLabelled ==
    \A t \in 1..Len(workers) :
       workers[t].pc = "ended" =>
          /\ ReenableLast(t)
          /\ (Len(workers) = 1 /\ after_queue = <<>>) =>
                /\ check_button = "normal"
                /\ status_label.text \in {"checked", "error"}

----------------------------------------------------------------------------
(* Properties of start_http_server *)

\* the ports tried are consecutive from the requested port
TriedConsecutive ==
    \A k \in 1..Len(srv_tried) : srv_tried[k].port = srv_requested + k - 1

\* no port tried before the last one could be bound
EarlierNotBound ==
    \A k \in 1..(Len(srv_tried) - 1) : srv_tried[k].outcome # "bound"

\* the call has returned at once because the session marked a server
ReturnedAtEntry ==
    srv_variant = "pdf_viewer_iframe" /\ srv_entry_running

\* C29: the session has at most one serving file server; a call tries at
\* most 10 consecutive ports from the requested one; a call of
\* pdf_viewer_iframe that finds the session marking a running server
\* returns True and creates none; otherwise the call starts a single
\* server on the first port that can be bound, records the server,
\* http_server_running = True and the port, and returns True, or it has
\* tried 10 ports, started nothing, returns False and
\* http_server_running is not True
C29_OneServerBoundedProbe ==
    /\ Cardinality(srv_live) <= 1
    /\ Len(srv_tried) <= 10
    /\ TriedConsecutive
    /\ srv_pc = "returned" =>
          /\ ReturnedAtEntry =>
                /\ srv_result = "True"
                /\ srv_started = {}
                /\ srv_tried = <<>>
          /\ (srv_result = "True" /\ ~ReturnedAtEntry) =>
                /\ srv_started =
                      {Server(session_state.http_server,
                              session_state.http_server_port)}
                /\ srv_started \subseteq srv_live
                /\ session_state.http_server_running = "True"
                /\ srv_tried # <<>>
                /\ srv_tried[Len(srv_tried)] =
                      [port |-> session_state.http_server_port,
                       outcome |-> "bound"]
                /\ EarlierNotBound
          /\ srv_result = "False" =>
                /\ Len(srv_tried) = 10
                /\ \A k \in 1..10 : srv_tried[k].outcome # "bound"
                /\ srv_started = {}
                /\ session_state.http_server_running # "True"
          /\ srv_started # {} => srv_result = "True"

\* app.py has shut down the server of an earlier call and started a new
\* one on the third port tried
C29_Witness ==
    /\ srv_variant = "app"
    /\ srv_pc = "returned"
    /\ srv_entry_running
    /\ srv_result = "True"
    /\ Len(srv_tried) = 3
    /\ srv_live = {Server(srv_calls, HTTP_SERVER_PORT + 2)}

----------------------------------------------------------------------------
(* Properties of the Mode 1 product comparison *)

\* C30: compare_pairs reports and annotates a pair only if its hash
\* distance is strictly less than 24; a pair at distance 24 or more, a
\* product without partner (None, 9999) included, is skipped and its
\* records are not read
C30_ReportedBelow24 ==
    /\ \A k \in pr_reported \cup pr_annotated : pr_pairs[k].dist < 24
    /\ \A k \in 1..pr_pos :
          pr_pairs[k].dist >= 24 => k \notin pr_read \cup pr_reported

====
